---------------------------- MODULE Spec2Model ----------------------------
(***************************************************************************)
(* A model of go9p (src/auth.go): the permission engine, BaseFile's Stat   *)
(* record, the Qid counter of FS, the codec of the authentication          *)
(* messages and the reply to an authentication request.                    *)
(*                                                                         *)
(* Unsigned integers wider than 16 bits are kept as tuples of 16-bit       *)
(* limbs, most significant limb first, so that every width is kept:        *)
(* a uint32 is <<hi, lo>> and a uint64 is <<w3, w2, w1, w0>>.  A Go string  *)
(* is the sequence of its bytes where it is encoded, a name elsewhere.     *)
(***************************************************************************)
EXTENDS Integers, Sequences, FiniteSets, TLC

VARIABLES
    permIn,     \* the arguments of one openPermission call: [user, file, omode]
    permOut,    \* its outcome: [done, relation, allowed]
    fStat,      \* BaseFile.fStat of one node
    statLog,    \* the last call on the node: [op, arg, before, ret]
    fParent,    \* BaseFile.parent of the node (NoNode: nil)
    fileLog,    \* the last Open, Read, Write or Close on the node: [op, n, data, err]
    fsUid,      \* FS.uid, the Qid counter
    fsLock,     \* the holder of FS's lock (NoProc: free)
    qidPc,      \* where each caller of NewQid stands
    qidLocal,   \* each caller's statMode, local uid and the calls returned when it started
    returned,   \* the Qids returned so far, in the order of return
    live,       \* the live nodes of the tree, each named by the index in
                \* `returned` of the Qid it was built with
    shortRead,  \* what a field reader does on a buffer that is too short
    codecKind,  \* the message variant under test: "TAuth" or "RAuth"
    msg,        \* the message given to Compose
    frame,      \* the bytes Compose returned
    buffer,     \* the bytes given to Parse
    parsed,     \* the outcome of Parse: [status, msg, rest]
    codecPc,    \* "compose", "deliver", "parse" or "done"
    fsysState,  \* the *filesystem given to Reply: the paths of its nodes
    connFids,   \* the *connection given to Reply: which fids are bound
    srvState,   \* the *Server given to Reply
    authLog,    \* the authentication requests handled: [req, replies, before]
    children,   \* the child mapping of each Dir: name -> node (NoNode: no entry)
    parentOf,   \* BaseFile.parent of each node (NoNode: nil)
    dirLock,    \* the holder of each Dir's lock (NoProc: free)
    built,      \* the nodes that exist
    treePc,     \* where each caller of the tree stands
    treeCall,   \* each caller's last call: [id, op, dir, node, name, err, ret, absent, seen]
    treeMisuse, \* whether AddChild has inserted the root or an attached node
    treeCalls,  \* the number of calls started
    snapStat,   \* BaseFile.fStat of a node read and written concurrently
    snapLock,   \* whether the node's lock is held
    snapW,      \* the WriteStat under way: [pc, arg, i]
    snapR,      \* the Stat under way: [pc, ret, i, whole]
    snapHeld,   \* the value the last Stat returned
    now,        \* time.Now(), in seconds
    srvDir,     \* the names in the server's directory
    dirCache,   \* Dir.dirCache, the cached listing
    dirTTL,     \* Dir.dirTTL, the expiry of the listing
    dirCacheMap, \* the package's dirCache map: the paths with a Dir
    wire,       \* the requests the last handler sent to the server
    bridgeLog,  \* the last handler: its arguments, the state before it and its results
    mutated,    \* whether a mutation through the Dir has succeeded since its
                \* listing was last fetched
    srvStat,    \* the server's Stat of each path the bridge sets attributes of
    flagTarget, \* the target the bridge is built for
    flagIn,     \* the flags of an open request
    flagOut,    \* the outcome of convertFlag: [done, m]
    pathChain,  \* the names of the nodes of one parent chain, from the root down
    pathNode,   \* the node given to FullPath (0: nil)
    pathOut,    \* the outcome of FullPath: [done, path]
    rLog,       \* the answers of the read half to the Close calls made on it
    wLog,       \* the answers of the write half to the Close calls made on it
    closeOut    \* the outcome of the last ReadWriteCloser.Close: [done, isNil, text]

permVars == <<permIn, permOut>>
statVars == <<fStat, statLog, fParent, fileLog>>
qidVars == <<fsUid, fsLock, qidPc, qidLocal, returned, live>>

codecVars == <<shortRead, codecKind, msg, frame, buffer, parsed, codecPc>>

replyVars == <<fsysState, connFids, srvState, authLog>>

treeVars == <<children, parentOf, dirLock, built, treePc, treeCall, treeMisuse,
              treeCalls>>

snapVars == <<snapStat, snapLock, snapW, snapR, snapHeld>>

bridgeVars == <<now, srvDir, dirCache, dirTTL, dirCacheMap, wire, bridgeLog,
                mutated, srvStat>>

flagVars == <<flagTarget, flagIn, flagOut>>

pathVars == <<pathChain, pathNode, pathOut>>

closerVars == <<rLog, wLog, closeOut>>

vars == <<permIn, permOut, fStat, statLog, fParent, fileLog,
          fsUid, fsLock, qidPc, qidLocal, returned, live,
          shortRead, codecKind, msg, frame, buffer, parsed, codecPc,
          fsysState, connFids, srvState, authLog,
          children, parentOf, dirLock, built, treePc, treeCall, treeMisuse,
          treeCalls,
          snapStat, snapLock, snapW, snapR, snapHeld,
          now, srvDir, dirCache, dirTTL, dirCacheMap, wire, bridgeLog, mutated, srvStat,
          flagTarget, flagIn, flagOut,
          pathChain, pathNode, pathOut,
          rLog, wLog, closeOut>>

\* What a step of one component leaves alone.
PermFrame == UNCHANGED <<statVars, qidVars, codecVars, replyVars, treeVars, snapVars, bridgeVars, flagVars, pathVars, closerVars>>
StatFrame == UNCHANGED <<permVars, qidVars, codecVars, replyVars, treeVars, snapVars, bridgeVars, flagVars, pathVars, closerVars>>
QidFrame == UNCHANGED <<permVars, statVars, codecVars, replyVars, treeVars, snapVars, bridgeVars, flagVars, pathVars, closerVars>>
CodecFrame == UNCHANGED <<permVars, statVars, qidVars, replyVars, treeVars, snapVars, bridgeVars, flagVars, pathVars, closerVars>>
ReplyFrame == UNCHANGED <<permVars, statVars, qidVars, codecVars, treeVars, snapVars, bridgeVars, flagVars, pathVars, closerVars>>
TreeFrame == UNCHANGED <<permVars, statVars, qidVars, codecVars, replyVars, snapVars, bridgeVars, flagVars, pathVars, closerVars>>
SnapFrame == UNCHANGED <<permVars, statVars, qidVars, codecVars, replyVars, treeVars, bridgeVars, flagVars, pathVars, closerVars>>
BridgeFrame == UNCHANGED <<permVars, statVars, qidVars, codecVars, replyVars, treeVars, snapVars, flagVars, pathVars, closerVars>>
FlagFrame == UNCHANGED <<permVars, statVars, qidVars, codecVars, replyVars, treeVars, snapVars, bridgeVars, pathVars, closerVars>>
PathFrame == UNCHANGED <<permVars, statVars, qidVars, codecVars, replyVars, treeVars, snapVars, bridgeVars, flagVars, closerVars>>
CloserFrame == UNCHANGED <<permVars, statVars, qidVars, codecVars, replyVars, treeVars, snapVars, bridgeVars, flagVars, pathVars>>

-----------------------------------------------------------------------------
(* Fixed-width arithmetic.                                                 *)

Pow2(n) == 2 ^ n

\* a & b for naturals.
RECURSIVE BitAnd(_, _)
BitAnd(a, b) ==
    IF a = 0 \/ b = 0 THEN 0
    ELSE (a % 2) * (b % 2) + 2 * BitAnd(a \div 2, b \div 2)

\* v >> n for a uint32 <<hi, lo>>, 0 <= n < 32.
Shr32(v, n) ==
    IF n >= 16
    THEN <<0, v[1] \div Pow2(n - 16)>>
    ELSE <<v[1] \div Pow2(n), (v[2] \div Pow2(n)) + (v[1] % Pow2(n)) * Pow2(16 - n)>>

\* uint8(v) for a uint32: the low 8 bits.
Uint8Of32(v) == v[2] % 256

-----------------------------------------------------------------------------
(* The open modes and the relations of a user to a file.                   *)

Oread == 0
Owrite == 1
Ordwr == 2
Oexec == 3
None == 4

ugo_user == 0
ugo_group == 1
ugo_other == 2

-----------------------------------------------------------------------------
(* The permission engine.                                                  *)

userInGroup(user, group) == user = group

\* userRelation with the group tested before the owner.
userRelation_GroupFirst(user, file) ==
    IF userInGroup(user, file.Stat.Gid) THEN ugo_group
    ELSE IF user = file.Stat.Uid THEN ugo_user
    ELSE ugo_other

userRelation(user, file) ==
    IF user = file.Stat.Uid THEN ugo_user
    ELSE IF userInGroup(user, file.Stat.Gid) THEN ugo_group
    ELSE ugo_other

\* omodePermits switching on the access bits of the mode only (omode & 3).
omodePermits_MaskedMode(perm, omode) ==
    LET m == omode % 4 IN
    CASE m = Oread -> BitAnd(perm, 4) # 0
      [] m = Owrite -> BitAnd(perm, 2) # 0
      [] m = Ordwr -> BitAnd(perm, 6) # 0
      [] m = Oexec -> BitAnd(perm, 1) # 0

omodePermits(perm, omode) ==
    CASE omode = Oread -> BitAnd(perm, 4) # 0
      [] omode = Owrite -> BitAnd(perm, 2) # 0
      [] omode = Ordwr -> BitAnd(perm, 6) # 0
      [] omode = Oexec -> BitAnd(perm, 1) # 0
      [] omode = None -> FALSE
      [] OTHER -> FALSE

\* openPermission with the shifts of the owner and the group exchanged.
openPermission_ShiftsSwapped(user, file, omode) ==
    LET rel == userRelation(user, file) IN
    CASE rel = ugo_user ->
            omodePermits(BitAnd(Uint8Of32(Shr32(file.Stat.Mode, 3)), 7), omode)
      [] rel = ugo_group ->
            omodePermits(BitAnd(Uint8Of32(Shr32(file.Stat.Mode, 6)), 7), omode)
      [] rel = ugo_other ->
            omodePermits(BitAnd(Uint8Of32(file.Stat.Mode), 7), omode)
      [] OTHER -> FALSE

openPermission(user, file, omode) ==
    LET rel == userRelation(user, file) IN
    CASE rel = ugo_user ->
            omodePermits(BitAnd(Uint8Of32(Shr32(file.Stat.Mode, 6)), 7), omode)
      [] rel = ugo_group ->
            omodePermits(BitAnd(Uint8Of32(Shr32(file.Stat.Mode, 3)), 7), omode)
      [] rel = ugo_other ->
            omodePermits(BitAnd(Uint8Of32(file.Stat.Mode), 7), omode)
      [] OTHER -> FALSE


-----------------------------------------------------------------------------
(* The calls of openPermission that are checked: every permission value of *)
(* the low limb up to MaxModeLow, with and without the directory flag      *)
(* (bit 31), for users that are the owner, in the group, both or neither.  *)

MaxModeLow == 511

DMDIR == <<32768, 0>>

PermUsers == {"alice", "bob", "eve"}
PermOwners == {"alice", "bob"}
PermModes == {<<hi, lo>> : hi \in {0, DMDIR[1]}, lo \in 0..MaxModeLow}
PermOmodes == {Oread, Owrite, Ordwr, Oexec, None, 5, 16, 17, 18, 64, 255}

PermInit ==
    /\ permIn \in [user : PermUsers,
                   file : [Stat : [Uid : PermOwners, Gid : PermOwners, Mode : PermModes]],
                   omode : PermOmodes]
    /\ permOut = [done |-> FALSE, relation |-> ugo_other, allowed |-> FALSE]

\* One call openPermission(user, file, omode).
OpenPermission ==
    /\ ~permOut.done
    /\ permOut' = [done |-> TRUE,
                   relation |-> userRelation(permIn.user, permIn.file),
                   allowed |-> openPermission(permIn.user, permIn.file, permIn.omode)]
    /\ UNCHANGED permIn
    /\ PermFrame

PermNext == OpenPermission

\* No call of openPermission is under way.
PermIdle ==
    /\ permIn = [user |-> "alice",
                 file |-> [Stat |-> [Uid |-> "alice", Gid |-> "alice", Mode |-> <<0, 0>>]],
                 omode |-> None]
    /\ permOut = [done |-> TRUE, relation |-> ugo_user, allowed |-> FALSE]

-----------------------------------------------------------------------------
(* proto.Stat and BaseFile.                                                *)

MaxUint8 == 255
MaxUint16 == 65535
MaxUint32 == <<MaxUint16, MaxUint16>>
MaxUint64 == <<MaxUint16, MaxUint16, MaxUint16, MaxUint16>>

U32(n) == <<0, n>>
U64(n) == <<0, 0, 0, n>>

\* The Stat whose every field is the "unchanged" sentinel of a WStat.
SentinelStat ==
    [Type |-> MaxUint16, Dev |-> MaxUint32,
     Qid |-> [Qtype |-> MaxUint8, Vers |-> MaxUint32, Uid |-> MaxUint64],
     Mode |-> MaxUint32, Atime |-> MaxUint32, Mtime |-> MaxUint32,
     Length |-> MaxUint64, Name |-> "", Uid |-> "", Gid |-> "", Muid |-> ""]

\* The Stats a node is built with.
FullStats ==
    {[Type |-> 0, Dev |-> U32(0),
      Qid |-> [Qtype |-> 0, Vers |-> U32(0), Uid |-> U64(1)],
      Mode |-> U32(mode), Atime |-> U32(7), Mtime |-> U32(mtime),
      Length |-> U64(len), Name |-> name,
      Uid |-> "alice", Gid |-> "staff", Muid |-> "alice"] :
        mode \in {384, 420}, mtime \in {7, 9}, len \in {0, 5}, name \in {"a", "b"}}

\* The partial Stats of a WStat: any of mode, modify time, length and name
\* set, every other field at its sentinel.
PartialStats ==
    {[SentinelStat EXCEPT !.Mode = mode, !.Mtime = mtime,
                          !.Length = len, !.Name = name] :
        mode \in {MaxUint32, U32(420)}, mtime \in {MaxUint32, U32(9)},
        len \in {MaxUint64, U64(5)}, name \in {"", "b"}}

NoStatCall == [op |-> "NewBaseFile", arg |-> SentinelStat,
               before |-> SentinelStat, ret |-> SentinelStat]

\* NewBaseFile(s): the node holds a copy of s.
NewBaseFile(s) == s

\* The root of the tree, and the nil Dir.
Root == 1
NoNode == 0

NoFileCall == [op |-> "none", n |-> 0, data |-> <<>>, err |-> FALSE]

StatInit ==
    /\ fStat \in {NewBaseFile(s) : s \in FullStats}
    /\ statLog = NoStatCall
    /\ fParent = NoNode
    /\ fileLog = NoFileCall

\* What f.WriteStat(s) leaves in f.fStat.
WriteStatResult(old, s) == s

\* f.WriteStat(s), under the node's lock.
WriteStat(s) ==
    /\ fStat' = WriteStatResult(fStat, s)
    /\ statLog' = [op |-> "WriteStat", arg |-> s, before |-> fStat, ret |-> SentinelStat]
    /\ UNCHANGED <<fParent, fileLog>>
    /\ StatFrame

\* f.Stat(): a copy of f.fStat.
Stat ==
    /\ statLog' = [op |-> "Stat", arg |-> SentinelStat, before |-> fStat, ret |-> fStat]
    /\ UNCHANGED <<fStat, fParent, fileLog>>
    /\ StatFrame

StatNext ==
    \/ \E s \in FullStats \cup PartialStats : WriteStat(s)
    \/ Stat

\* f.SetParent(d), under the node's lock.
SetParentCall(d) ==
    /\ fParent' = d
    /\ UNCHANGED <<fStat, statLog, fileLog>>
    /\ StatFrame

\* What Open, Read, Write and Close of BaseFile return.
BaseFileOpen(fid, omode) == [NoFileCall EXCEPT !.op = "Open"]
BaseFileRead(fid, offset, count) == [NoFileCall EXCEPT !.op = "Read", !.data = <<>>]
BaseFileWrite_Writes(fid, offset, data) ==
    [NoFileCall EXCEPT !.op = "Write", !.n = Len(data)]
BaseFileWrite(fid, offset, data) ==
    [NoFileCall EXCEPT !.op = "Write", !.n = 0, !.err = TRUE]
BaseFileClose(fid) == [NoFileCall EXCEPT !.op = "Close"]

\* The handle ids, modes, offsets, counts and data of the calls.
FileFids == {U32(0), MaxUint32}
FileOffsets == {U64(0), U64(5)}
FileCounts == {U64(0), U64(4)}
FileData == {<<>>, <<97>>, <<97, 98>>}

FileCall(result) ==
    /\ fileLog' = result
    /\ UNCHANGED <<fStat, statLog, fParent>>
    /\ StatFrame

OpenCall(fid, omode) == FileCall(BaseFileOpen(fid, omode))
ReadCall(fid, offset, count) == FileCall(BaseFileRead(fid, offset, count))
WriteCall(fid, offset, data) == FileCall(BaseFileWrite(fid, offset, data))
CloseCall(fid) == FileCall(BaseFileClose(fid))

\* BaseFile as a File: every call of the node, in any order.
FileNext ==
    \/ \E s \in FullStats : WriteStat(s)
    \/ Stat
    \/ \E d \in {NoNode, Root} : SetParentCall(d)
    \/ \E fid \in FileFids, omode \in {Oread, Owrite, Ordwr, Oexec} : OpenCall(fid, omode)
    \/ \E fid \in FileFids, offset \in FileOffsets, count \in FileCounts :
          ReadCall(fid, offset, count)
    \/ \E fid \in FileFids, offset \in FileOffsets, data \in FileData :
          WriteCall(fid, offset, data)
    \/ \E fid \in FileFids : CloseCall(fid)

\* The node is not used.
StatIdle ==
    /\ fStat = SentinelStat
    /\ statLog = NoStatCall
    /\ fParent = NoNode
    /\ fileLog = NoFileCall

-----------------------------------------------------------------------------
(* FS: the Qid counter.  NumProcs callers run NewStat / NewQid             *)
(* concurrently, MaxCalls calls in all; nodes are added to the tree with   *)
(* the Qids returned, and deleted from it.                                 *)

NumProcs == 2
MaxCalls == 2

Procs == 1..NumProcs
NoProc == 0

\* v + 1 for a uint64, modulo 2^64.
Inc64(v) ==
    IF v[4] < MaxUint16 THEN <<v[1], v[2], v[3], v[4] + 1>>
    ELSE IF v[3] < MaxUint16 THEN <<v[1], v[2], v[3] + 1, 0>>
    ELSE IF v[2] < MaxUint16 THEN <<v[1], v[2] + 1, 0, 0>>
    ELSE IF v[1] < MaxUint16 THEN <<v[1] + 1, 0, 0, 0>>
    ELSE <<0, 0, 0, 0>>

\* The statMode arguments: a file of mode 0644, a directory of mode 0755.
QidModes == {U32(420), <<DMDIR[1], 493>>}

\* The Qid that NewQid returns for the counter value it read.
QidOf(statMode, uid) ==
    [Qtype |-> Uint8Of32(Shr32(statMode, 24)), Vers |-> U32(0), Uid |-> uid]

\* NewFS: the root's Stat has taken the first Qid.
QidInit ==
    /\ fsUid = Inc64(U64(0))
    /\ fsLock = NoProc
    /\ qidPc = [p \in Procs |-> "idle"]
    /\ qidLocal = [p \in Procs |-> [statMode |-> U32(0), uid |-> U64(0), started |-> 0]]
    /\ returned = <<[qid |-> QidOf(<<DMDIR[1], 493>>, U64(0)), started |-> 0, node |-> TRUE]>>
    /\ live = {1}

InFlight == Cardinality({p \in Procs : qidPc[p] # "idle"})

\* A caller enters NewQid(statMode) (directly or through NewStat).
CallNewQid(p, statMode) ==
    /\ qidPc[p] = "idle"
    /\ Len(returned) + InFlight < MaxCalls + 1
    /\ qidPc' = [qidPc EXCEPT ![p] = "lock"]
    /\ qidLocal' = [qidLocal EXCEPT ![p] =
                       [statMode |-> statMode, uid |-> U64(0), started |-> Len(returned)]]
    /\ UNCHANGED <<fsUid, fsLock, returned, live>>
    /\ QidFrame

\* A Lock that never waits.
FsLockGranted_NoLock(lock) == TRUE

\* Whether fs.Lock() may proceed.
FsLockGranted(lock) == lock = NoProc

\* fs.Lock()
QidLock(p) ==
    /\ qidPc[p] = "lock"
    /\ FsLockGranted(fsLock)
    /\ fsLock' = p
    /\ qidPc' = [qidPc EXCEPT ![p] = "read"]
    /\ UNCHANGED <<fsUid, qidLocal, returned, live>>
    /\ QidFrame

\* uid := fs.uid
QidRead(p) ==
    /\ qidPc[p] = "read"
    /\ qidLocal' = [qidLocal EXCEPT ![p].uid = fsUid]
    /\ qidPc' = [qidPc EXCEPT ![p] = "incr"]
    /\ UNCHANGED <<fsUid, fsLock, returned, live>>
    /\ QidFrame

\* fs.uid = fs.uid + 1
QidIncr(p) ==
    /\ qidPc[p] = "incr"
    /\ fsUid' = Inc64(fsUid)
    /\ qidPc' = [qidPc EXCEPT ![p] = "return"]
    /\ UNCHANGED <<fsLock, qidLocal, returned, live>>
    /\ QidFrame

\* return proto.Qid{...}, and the deferred fs.Unlock()
QidReturn(p) ==
    /\ qidPc[p] = "return"
    /\ returned' = Append(returned,
                          [qid |-> QidOf(qidLocal[p].statMode, qidLocal[p].uid),
                           started |-> qidLocal[p].started, node |-> FALSE])
    /\ fsLock' = NoProc
    /\ qidPc' = [qidPc EXCEPT ![p] = "idle"]
    /\ UNCHANGED <<fsUid, qidLocal, live>>
    /\ QidFrame

\* A node is built with a returned Qid and added to the tree.
AddNode(i) ==
    /\ ~returned[i].node
    /\ returned' = [returned EXCEPT ![i].node = TRUE]
    /\ live' = live \cup {i}
    /\ UNCHANGED <<fsUid, fsLock, qidPc, qidLocal>>
    /\ QidFrame

\* A node other than the root is deleted from the tree.
DeleteNode(k) ==
    /\ k > 1
    /\ live' = live \ {k}
    /\ UNCHANGED <<fsUid, fsLock, qidPc, qidLocal, returned>>
    /\ QidFrame

QidNext ==
    \/ \E p \in Procs, m \in QidModes : CallNewQid(p, m)
    \/ \E p \in Procs : QidLock(p)
    \/ \E p \in Procs : QidRead(p)
    \/ \E p \in Procs : QidIncr(p)
    \/ \E p \in Procs : QidReturn(p)
    \/ \E i \in 1..Len(returned) : AddNode(i)
    \/ \E k \in live : DeleteNode(k)

\* The FS is not used.
QidIdle ==
    /\ fsUid = U64(0)
    /\ fsLock = NoProc
    /\ qidPc = [p \in Procs |-> "idle"]
    /\ qidLocal = [p \in Procs |-> [statMode |-> U32(0), uid |-> U64(0), started |-> 0]]
    /\ returned = <<>>
    /\ live = {}

-----------------------------------------------------------------------------
(* The wire codec: little-endian integers, strings, the frame header and   *)
(* the Qid.  A buffer is a sequence of bytes.                              *)

Zeros(n) == [i \in 1..n |-> 0]

\* The bytes of b from position n + 1 on (b[n:]).
Drop(b, n) == SubSeq(b, n + 1, Len(b))

\* The uint32 of a length or size.
Uint32OfInt(n) == <<n \div 65536, n % 65536>>

\* The two bytes of a 16-bit limb, low byte first.
LimbBytes(w) == <<w % 256, w \div 256>>

\* The limb of two bytes, low byte first.
LimbOf(b, i) == b[i] + 256 * b[i + 1]

toLittleE16(v) == LimbBytes(v)
toLittleE32(v) == LimbBytes(v[2]) \o LimbBytes(v[1])
toLittleE64(v) == LimbBytes(v[4]) \o LimbBytes(v[3]) \o LimbBytes(v[2]) \o LimbBytes(v[1])

\* toString: the 2-byte length, then the bytes.
toString(str) == toLittleE16(Len(str) % 65536) \o str

\* A buffer of `length` bytes, zeroed by make, with `written` stored from
\* its start on; writing past its end panics.
Panicked == <<-1>>
Written(length, written) ==
    IF Len(written) <= length
    THEN written \o Zeros(length - Len(written))
    ELSE Panicked

\* The readers: [short, val, rest].  On a buffer that is too short a reader
\* has no error to return: it panics, or it yields a zero value.
fromLittleE16(b) ==
    IF Len(b) < 2 THEN [short |-> TRUE, val |-> 0, rest |-> <<>>]
    ELSE [short |-> FALSE, val |-> LimbOf(b, 1), rest |-> Drop(b, 2)]

fromLittleE32(b) ==
    IF Len(b) < 4 THEN [short |-> TRUE, val |-> U32(0), rest |-> <<>>]
    ELSE [short |-> FALSE, val |-> <<LimbOf(b, 3), LimbOf(b, 1)>>, rest |-> Drop(b, 4)]

fromLittleE64(b) ==
    IF Len(b) < 8 THEN [short |-> TRUE, val |-> U64(0), rest |-> <<>>]
    ELSE [short |-> FALSE,
          val |-> <<LimbOf(b, 7), LimbOf(b, 5), LimbOf(b, 3), LimbOf(b, 1)>>,
          rest |-> Drop(b, 8)]

fromString(b) ==
    LET n == fromLittleE16(b) IN
    IF n.short \/ Len(n.rest) < n.val
    THEN [short |-> TRUE, val |-> <<>>, rest |-> <<>>]
    ELSE [short |-> FALSE, val |-> SubSeq(n.rest, 1, n.val), rest |-> Drop(n.rest, n.val)]

\* fcParse: the header size[4] type[1] tag[2].  It fails when the header is
\* not all there or the declared size exceeds the buffer.
fcParse(b) ==
    IF Len(b) < 7
    THEN [err |-> TRUE, FCall |-> [Ctype |-> 0, Tag |-> 0], rest |-> <<>>]
    ELSE LET size == fromLittleE32(b).val IN
         IF size[1] > 0 \/ size[2] > Len(b)
         THEN [err |-> TRUE, FCall |-> [Ctype |-> 0, Tag |-> 0], rest |-> <<>>]
         ELSE [err |-> FALSE,
               FCall |-> [Ctype |-> b[5], Tag |-> LimbOf(b, 6)],
               rest |-> Drop(b, 7)]

\* Qid.Compose: type[1] version[4] id[8].
QidCompose(q) == <<q.Qtype>> \o toLittleE32(q.Vers) \o toLittleE64(q.Uid)

ZeroQid == [Qtype |-> 0, Vers |-> U32(0), Uid |-> U64(0)]

\* Qid.Parse: fails unless the 13 bytes are there.
QidParse(b) ==
    IF Len(b) < 13
    THEN [err |-> TRUE, qid |-> ZeroQid, rest |-> <<>>]
    ELSE [err |-> FALSE,
          qid |-> [Qtype |-> b[1],
                   Vers |-> fromLittleE32(Drop(b, 1)).val,
                   Uid |-> fromLittleE64(Drop(b, 5)).val],
          rest |-> Drop(b, 13)]

\* copy(dst, src): the bytes of src that fit, over dst.
Copy(dst, src) ==
    IF Len(src) >= Len(dst) THEN SubSeq(src, 1, Len(dst))
    ELSE src \o Drop(dst, Len(src))

-----------------------------------------------------------------------------
(* TAuth and RAuth.                                                        *)

ZeroFCall == [Ctype |-> 0, Tag |-> 0]
ZeroTAuth == [FCall |-> ZeroFCall, Afid |-> U32(0), Uname |-> <<>>, Aname |-> <<>>]
ZeroRAuth == [FCall |-> ZeroFCall, Aqid |-> ZeroQid]

\* TAuth.Compose with a terminator counted after each string.
TAuthLength_Terminated(auth) ==
    4 + 1 + 2 + 4 + (3 + Len(auth.Uname)) + (3 + Len(auth.Aname))

\* The length TAuth.Compose declares and allocates.
TAuthLength(auth) ==
    4 + 1 + 2 + 4 + (2 + Len(auth.Uname)) + (2 + Len(auth.Aname))

\* TAuth.Compose writing aname before uname.
TAuthCompose_NamesSwapped(auth) ==
    Written(TAuthLength(auth),
            toLittleE32(Uint32OfInt(TAuthLength(auth)))
            \o <<auth.FCall.Ctype>>
            \o toLittleE16(auth.FCall.Tag)
            \o toLittleE32(auth.Afid)
            \o toString(auth.Aname)
            \o toString(auth.Uname))

TAuthCompose(auth) ==
    Written(TAuthLength(auth),
            toLittleE32(Uint32OfInt(TAuthLength(auth)))
            \o <<auth.FCall.Ctype>>
            \o toLittleE16(auth.FCall.Tag)
            \o toLittleE32(auth.Afid)
            \o toString(auth.Uname)
            \o toString(auth.Aname))

TAuthParse(buff) ==
    LET fc == fcParse(buff) IN
    IF fc.err THEN [status |-> "error", msg |-> ZeroTAuth, rest |-> <<>>]
    ELSE LET afid == fromLittleE32(fc.rest)
             uname == fromString(afid.rest)
             aname == fromString(uname.rest)
         IN  IF (afid.short \/ uname.short \/ aname.short) /\ shortRead = "panic"
             THEN [status |-> "panic", msg |-> ZeroTAuth, rest |-> <<>>]
             ELSE [status |-> "ok",
                   msg |-> [FCall |-> fc.FCall, Afid |-> afid.val,
                            Uname |-> uname.val, Aname |-> aname.val],
                   rest |-> aname.rest]

RAuthLength == 4 + 1 + 2 + 13

RAuthCompose(auth) ==
    LET buff == Written(RAuthLength,
                        toLittleE32(Uint32OfInt(RAuthLength))
                        \o <<auth.FCall.Ctype>>
                        \o toLittleE16(auth.FCall.Tag))
    IN  SubSeq(buff, 1, 7) \o Copy(Drop(buff, 7), QidCompose(auth.Aqid))

RAuthParse(buff) ==
    LET fc == fcParse(buff) IN
    IF fc.err THEN [status |-> "error", msg |-> ZeroRAuth, rest |-> <<>>]
    ELSE LET q == QidParse(fc.rest) IN
         IF q.err THEN [status |-> "error", msg |-> ZeroRAuth, rest |-> <<>>]
         ELSE [status |-> "ok", msg |-> [FCall |-> fc.FCall, Aqid |-> q.qid],
               rest |-> q.rest]

-----------------------------------------------------------------------------
(* The messages composed and the buffers parsed: strings of up to          *)
(* MaxStrLen bytes, and of a composed frame the whole, every proper prefix *)
(* and every proper prefix whose size field is set to its own length.      *)

MaxStrLen == 2

StrBytes == {0, 97}
CodecStrings == UNION {[1..k -> StrBytes] : k \in 0..MaxStrLen}
CodecFCalls == [Ctype : {102, 255}, Tag : {258, MaxUint16}]
CodecAfids == {<<258, 772>>, MaxUint32}
CodecQids == [Qtype : {0, 128}, Vers : {U32(0), <<258, 772>>},
              Uid : {U64(1), <<258, 772, 1286, 1800>>, MaxUint64}]
TAuths == [FCall : CodecFCalls, Afid : CodecAfids,
           Uname : CodecStrings, Aname : CodecStrings]
RAuths == [FCall : CodecFCalls, Aqid : CodecQids]
ShortReads == {"panic", "zero"}

NotParsed == [status |-> "none", msg |-> ZeroFCall, rest |-> <<>>]

CodecInit ==
    /\ shortRead \in ShortReads
    /\ \/ codecKind = "TAuth" /\ msg \in TAuths
       \/ codecKind = "RAuth" /\ msg \in RAuths
    /\ frame = <<>>
    /\ buffer = <<>>
    /\ parsed = NotParsed
    /\ codecPc = "compose"

ComposeTAuth ==
    /\ codecPc = "compose" /\ codecKind = "TAuth"
    /\ frame' = TAuthCompose(msg)
    /\ codecPc' = "deliver"
    /\ UNCHANGED <<shortRead, codecKind, msg, buffer, parsed>>
    /\ CodecFrame

ComposeRAuth ==
    /\ codecPc = "compose" /\ codecKind = "RAuth"
    /\ frame' = RAuthCompose(msg)
    /\ codecPc' = "deliver"
    /\ UNCHANGED <<shortRead, codecKind, msg, buffer, parsed>>
    /\ CodecFrame

\* The reader has the whole frame.
DeliverWhole ==
    /\ codecPc = "deliver"
    /\ buffer' = frame
    /\ codecPc' = "parse"
    /\ UNCHANGED <<shortRead, codecKind, msg, frame, parsed>>
    /\ CodecFrame

\* The reader has the first n bytes of the frame.
DeliverPrefix(n) ==
    /\ codecPc = "deliver"
    /\ buffer' = SubSeq(frame, 1, n)
    /\ codecPc' = "parse"
    /\ UNCHANGED <<shortRead, codecKind, msg, frame, parsed>>
    /\ CodecFrame

\* The reader has the first n bytes of the frame, and the size field says n.
DeliverShortFrame(n) ==
    /\ codecPc = "deliver"
    /\ buffer' = toLittleE32(Uint32OfInt(n)) \o SubSeq(frame, 5, n)
    /\ codecPc' = "parse"
    /\ UNCHANGED <<shortRead, codecKind, msg, frame, parsed>>
    /\ CodecFrame

ParseTAuth ==
    /\ codecPc = "parse" /\ codecKind = "TAuth"
    /\ parsed' = TAuthParse(buffer)
    /\ codecPc' = "done"
    /\ UNCHANGED <<shortRead, codecKind, msg, frame, buffer>>
    /\ CodecFrame

ParseRAuth ==
    /\ codecPc = "parse" /\ codecKind = "RAuth"
    /\ parsed' = RAuthParse(buffer)
    /\ codecPc' = "done"
    /\ UNCHANGED <<shortRead, codecKind, msg, frame, buffer>>
    /\ CodecFrame

CodecNext ==
    \/ ComposeTAuth
    \/ ComposeRAuth
    \/ DeliverWhole
    \/ \E n \in 0..(Len(frame) - 1) : DeliverPrefix(n)
    \/ \E n \in 4..(Len(frame) - 1) : DeliverShortFrame(n)
    \/ ParseTAuth
    \/ ParseRAuth

\* The codec is not used.
CodecIdle ==
    /\ shortRead = "panic"
    /\ codecKind = "TAuth"
    /\ msg = ZeroTAuth
    /\ frame = <<>>
    /\ buffer = <<>>
    /\ parsed = NotParsed
    /\ codecPc = "done"

-----------------------------------------------------------------------------
(* The server's reply to an authentication request.  Up to MaxAuthRequests *)
(* requests are handled on one connection.                                 *)

MaxAuthRequests == 2

rerror == 107

AuthFids == {U32(0), U32(1), MaxUint32}
AuthRequests == [FCall : [Ctype : {102}, Tag : {258, MaxUint16}],
                 Afid : AuthFids, Uname : {<<97>>}, Aname : {<<>>}]

\* TAuth.Reply that binds the afid on the connection.
TAuthReply_BindsAfid(auth, fs, conn, s) ==
    [reply |-> [FCall |-> [Ctype |-> rerror, Tag |-> auth.FCall.Tag],
                Ename |-> "Not Enabled."],
     fs |-> fs, conn |-> [conn EXCEPT ![auth.Afid] = TRUE], s |-> s]

\* TAuth.Reply: the reply it returns, and fs, conn and s as it leaves them.
TAuthReply(auth, fs, conn, s) ==
    [reply |-> [FCall |-> [Ctype |-> rerror, Tag |-> auth.FCall.Tag],
                Ename |-> "Not Enabled."],
     fs |-> fs, conn |-> conn, s |-> s]

ReplyInit ==
    /\ fsysState \in {{"/"}, {"/", "/a"}}
    /\ connFids \in [AuthFids -> BOOLEAN]
    /\ srvState = [conns |-> 1]
    /\ authLog = <<>>

\* The server handles the request auth and sends what Reply returned.
ReplyTAuth(auth) ==
    /\ Len(authLog) < MaxAuthRequests
    /\ LET r == TAuthReply(auth, fsysState, connFids, srvState) IN
          /\ fsysState' = r.fs
          /\ connFids' = r.conn
          /\ srvState' = r.s
          /\ authLog' = Append(authLog,
                               [req |-> auth, replies |-> <<r.reply>>,
                                before |-> [fs |-> fsysState, conn |-> connFids,
                                            s |-> srvState]])
    /\ ReplyFrame

ReplyNext == \E auth \in AuthRequests : ReplyTAuth(auth)

\* No connection is served.
ReplyIdle ==
    /\ fsysState = {"/"}
    /\ connFids = [f \in AuthFids |-> FALSE]
    /\ srvState = [conns |-> 0]
    /\ authLog = <<>>

-----------------------------------------------------------------------------
(* The tree: FSNode's parent reference (BaseFile.parent) and the child     *)
(* mapping of each Dir.  Callers run AddChild, DeleteChild, a create hook  *)
(* (which builds a node and adds it to the parent Dir) and RMFile          *)
(* concurrently.  AddChild and DeleteChild follow the Dir contract: each   *)
(* runs under the lock of its directory and changes the mapping and the    *)
(* parent reference of the node together.                                  *)

NumTreeNodes == 4
MaxTreeCalls == 2
TreeNodes == 1..NumTreeNodes
\* The two callers.
TreeProcs == {1, 2}

\* f.Stat().Name of each node: the root is "/", node 2 is "a" and the others
\* share the name "b".
NodeName(n) == IF n = Root THEN "/" ELSE IF n = 2 THEN "a" ELSE "b"
IsDir(n) == n = Root \/ n % 2 = 0
TreeDirs == {n \in TreeNodes : IsDir(n)}
TreeNames == {NodeName(n) : n \in TreeNodes}

\* f.SetParent(d) and f.Parent() of BaseFile; NoNode is the nil Dir.
SetParent_Ignored(par, n, d) == par
SetParent(par, n, d) == [par EXCEPT ![n] = d]
Parent(par, n) == par[n]

NoTreeCall == [id |-> 0, op |-> "none", dir |-> NoNode, node |-> NoNode,
               name |-> "", err |-> "none", ret |-> "none", absent |-> FALSE,
               seen |-> {}]

\* At the start the tree is the root and one directory in it, node 2; the
\* other nodes are not built yet.
TreeInit ==
    /\ children = [d \in TreeDirs |-> [nm \in TreeNames |->
                      IF d = Root /\ nm = NodeName(2) THEN 2 ELSE NoNode]]
    /\ parentOf = [n \in TreeNodes |-> IF n = 2 THEN Root ELSE NoNode]
    /\ dirLock = [d \in TreeDirs |-> NoProc]
    /\ built = {Root, 2}
    /\ treePc = [p \in TreeProcs |-> "idle"]
    /\ treeCall = [p \in TreeProcs |-> NoTreeCall]
    /\ treeMisuse = FALSE
    /\ treeCalls = 0

\* A panic of one caller ends the program.
TreeCrashed == \E p \in TreeProcs : treeCall[p].ret = "panic"

TreeInFlight == {p \in TreeProcs : treePc[p] # "idle"}

\* Caller p starts a call, the next in number: it and the calls in flight
\* have met.
StartCall(p, call, pc) ==
    /\ treePc[p] = "idle"
    /\ ~TreeCrashed
    /\ treeCalls < MaxTreeCalls
    /\ treeCalls' = treeCalls + 1
    /\ treePc' = [treePc EXCEPT ![p] = pc]
    /\ treeCall' = [q \in TreeProcs |->
                      IF q = p
                      THEN [call EXCEPT !.id = treeCalls + 1,
                                        !.seen = {treeCall[r].id : r \in TreeInFlight}]
                      ELSE IF q \in TreeInFlight
                           THEN [treeCall[q] EXCEPT !.seen = @ \cup {treeCalls + 1}]
                           ELSE treeCall[q]]

\* d.AddChild(n) is called.
CallAddChild(p, d, n) ==
    /\ d \in built
    /\ n \in built
    /\ StartCall(p, [NoTreeCall EXCEPT !.op = "AddChild", !.dir = d, !.node = n,
                        !.name = NodeName(n),
                        !.absent = (children[d][NodeName(n)] = NoNode)], "lock")
    /\ UNCHANGED <<children, parentOf, dirLock, built, treeMisuse>>
    /\ TreeFrame

\* The create hook is called for a new name in d: it builds the node n and
\* goes on to d.AddChild(n).
CallCreate(p, d, n) ==
    /\ d \in built
    /\ n \notin built
    /\ built' = built \cup {n}
    /\ StartCall(p, [NoTreeCall EXCEPT !.op = "Create", !.dir = d, !.node = n,
                        !.name = NodeName(n),
                        !.absent = (children[d][NodeName(n)] = NoNode)], "lock")
    /\ UNCHANGED <<children, parentOf, dirLock, treeMisuse>>
    /\ TreeFrame

\* d.DeleteChild(name) is called.
CallDeleteChild(p, d, nm) ==
    /\ d \in built
    /\ StartCall(p, [NoTreeCall EXCEPT !.op = "DeleteChild", !.dir = d,
                        !.name = nm], "lock")
    /\ UNCHANGED <<children, parentOf, dirLock, built, treeMisuse>>
    /\ TreeFrame

\* RMFile(fs, f) up to the call of DeleteChild: parent := f.Parent(), and
\* parent.DeleteChild(f.Stat().Name) is a call on a nil Dir when f has no
\* parent.
CallRMFile(p, n) ==
    /\ n \in built
    /\ LET parent == Parent(parentOf, n)
           call == [NoTreeCall EXCEPT !.op = "RMFile", !.dir = parent,
                       !.node = n, !.name = NodeName(n)]
       IN  IF parent = NoNode
           THEN /\ StartCall(p, [call EXCEPT !.ret = "panic"], "idle")
           ELSE /\ StartCall(p, call, "lock")
    /\ UNCHANGED <<children, parentOf, dirLock, built, treeMisuse>>
    /\ TreeFrame

\* Whether the lock of directory d can be taken.
DirLockGranted_NoLock(lock, d) == TRUE
DirLockGranted(lock, d) == lock[d] = NoProc

\* What d.AddChild(n) and d.DeleteChild(name) do to the mapping.
HasChild(ch, d, nm) == ch[d][nm] # NoNode
InsertChild(ch, d, n) == [ch EXCEPT ![d][NodeName(n)] = n]
RemoveChild(ch, d, nm) == [ch EXCEPT ![d][nm] = NoNode]

\* The caller takes the lock of the directory.
DirLock(p) ==
    /\ treePc[p] = "lock"
    /\ DirLockGranted(dirLock, treeCall[p].dir)
    /\ dirLock' = [dirLock EXCEPT ![treeCall[p].dir] = p]
    /\ treePc' = [treePc EXCEPT ![p] =
                    IF treeCall[p].op \in {"AddChild", "Create"}
                    THEN "check" ELSE "delete"]
    /\ UNCHANGED <<children, parentOf, built, treeCall, treeMisuse, treeCalls>>
    /\ TreeFrame

\* AddChild: a name that is taken is a NameConflict.
AddCheck(p) ==
    /\ treePc[p] = "check"
    /\ IF HasChild(children, treeCall[p].dir, treeCall[p].name)
       THEN /\ treeCall' = [treeCall EXCEPT ![p].err = "NameConflict"]
            /\ dirLock' = [dirLock EXCEPT ![treeCall[p].dir] = NoProc]
            /\ treePc' = [treePc EXCEPT ![p] = "return"]
       ELSE /\ treePc' = [treePc EXCEPT ![p] = "insert"]
            /\ UNCHANGED <<treeCall, dirLock>>
    /\ UNCHANGED <<children, parentOf, built, treeMisuse, treeCalls>>
    /\ TreeFrame

\* AddChild: the node enters the mapping and its parent becomes d.  The
\* call was a misuse when the node was the root or was attached already.
AddInsert(p) ==
    /\ treePc[p] = "insert"
    /\ LET d == treeCall[p].dir
           n == treeCall[p].node
       IN  /\ children' = InsertChild(children, d, n)
           /\ parentOf' = SetParent(parentOf, n, d)
           /\ treeMisuse' = (treeMisuse \/ n = Root \/ Parent(parentOf, n) # NoNode)
           /\ dirLock' = [dirLock EXCEPT ![d] = NoProc]
    /\ treeCall' = [treeCall EXCEPT ![p].err = "ok"]
    /\ treePc' = [treePc EXCEPT ![p] = "return"]
    /\ UNCHANGED <<built, treeCalls>>
    /\ TreeFrame

\* DeleteChild: the child leaves the mapping and loses its parent; a name
\* that is not there is NotFound.
DeleteAct(p) ==
    /\ treePc[p] = "delete"
    /\ LET d == treeCall[p].dir
           nm == treeCall[p].name
       IN  /\ IF HasChild(children, d, nm)
              THEN /\ children' = RemoveChild(children, d, nm)
                   /\ parentOf' = SetParent(parentOf, children[d][nm], NoNode)
                   /\ treeCall' = [treeCall EXCEPT ![p].err = "ok"]
              ELSE /\ treeCall' = [treeCall EXCEPT ![p].err = "NotFound"]
                   /\ UNCHANGED <<children, parentOf>>
           /\ dirLock' = [dirLock EXCEPT ![d] = NoProc]
    /\ treePc' = [treePc EXCEPT ![p] = "return"]
    /\ UNCHANGED <<built, treeMisuse, treeCalls>>
    /\ TreeFrame

\* What the call returns: AddChild, DeleteChild and the create hook return
\* the error they met; RMFile drops DeleteChild's error and returns nil.
RMFileResult_ReturnsError(err) == IF err = "ok" THEN "nil" ELSE err
RMFileResult(err) == "nil"
CallResult(op, err) ==
    IF op = "RMFile" THEN RMFileResult(err)
    ELSE IF err = "ok" THEN "nil" ELSE err

TreeReturn(p) ==
    /\ treePc[p] = "return"
    /\ treeCall' = [treeCall EXCEPT ![p].ret = CallResult(treeCall[p].op, treeCall[p].err)]
    /\ treePc' = [treePc EXCEPT ![p] = "idle"]
    /\ UNCHANGED <<children, parentOf, dirLock, built, treeMisuse, treeCalls>>
    /\ TreeFrame

TreeNext ==
    \/ \E p \in TreeProcs, d \in TreeDirs, n \in TreeNodes : CallAddChild(p, d, n)
    \/ \E p \in TreeProcs, d \in TreeDirs, n \in TreeNodes : CallCreate(p, d, n)
    \/ \E p \in TreeProcs, d \in TreeDirs, nm \in TreeNames : CallDeleteChild(p, d, nm)
    \/ \E p \in TreeProcs, n \in TreeNodes : CallRMFile(p, n)
    \/ \E p \in TreeProcs : DirLock(p)
    \/ \E p \in TreeProcs : AddCheck(p)
    \/ \E p \in TreeProcs : AddInsert(p)
    \/ \E p \in TreeProcs : DeleteAct(p)
    \/ \E p \in TreeProcs : TreeReturn(p)

\* The tree is not used.
TreeIdle ==
    /\ children = <<>>
    /\ parentOf = <<>>
    /\ dirLock = <<>>
    /\ built = {}
    /\ treePc = <<>>
    /\ treeCall = <<>>
    /\ treeMisuse = FALSE
    /\ treeCalls = 0

-----------------------------------------------------------------------------
(* BaseFile.Stat against BaseFile.WriteStat.  WriteStat assigns f.fStat     *)
(* under the node's lock; Stat copies f.fStat and takes no lock.  A Stat   *)
(* record is several words, so the assignment and the copy each go field   *)
(* by field, and a copy that runs beside an assignment is a data race.     *)

StatFields == <<"Type", "Dev", "Qid", "Mode", "Atime", "Mtime", "Length",
                "Name", "Uid", "Gid", "Muid">>

\* dst with its i-th field copied from from.
CopyField(dst, from, i) == [dst EXCEPT ![StatFields[i]] = from[StatFields[i]]]

\* The Stats written: two modes and two names.
SnapStats == {s \in FullStats : s.Mtime = U32(7) /\ s.Length = U64(0)}

\* Whether Stat has to wait for the node's lock: it takes none.
StatWaits(lock) == FALSE

SnapInit ==
    /\ snapStat \in {NewBaseFile(s) : s \in SnapStats}
    /\ snapLock = FALSE
    /\ snapW = [pc |-> "idle", arg |-> SentinelStat, i |-> 0]
    /\ snapR = [pc |-> "idle", ret |-> SentinelStat, i |-> 0, whole |-> {}]
    /\ snapHeld = SentinelStat

\* f.WriteStat(s): f.Lock().  The value s is one the Stat call under way may
\* return whole.
SnapWriteStat(s) ==
    /\ snapW.pc = "idle"
    /\ ~snapLock
    /\ snapLock' = TRUE
    /\ snapW' = [pc |-> "assign", arg |-> s, i |-> 1]
    /\ snapR' = IF snapR.pc = "copy" THEN [snapR EXCEPT !.whole = @ \cup {s}]
                ELSE snapR
    /\ UNCHANGED <<snapStat, snapHeld>>
    /\ SnapFrame

\* f.fStat = *s, one field.
SnapAssignField ==
    /\ snapW.pc = "assign"
    /\ snapStat' = CopyField(snapStat, snapW.arg, snapW.i)
    /\ snapW' = IF snapW.i = Len(StatFields) THEN [snapW EXCEPT !.pc = "unlock"]
                ELSE [snapW EXCEPT !.i = @ + 1]
    /\ UNCHANGED <<snapLock, snapR, snapHeld>>
    /\ SnapFrame

\* The deferred f.Unlock(), and WriteStat returns.
SnapUnlock ==
    /\ snapW.pc = "unlock"
    /\ snapLock' = FALSE
    /\ snapW' = [snapW EXCEPT !.pc = "idle"]
    /\ UNCHANGED <<snapStat, snapR, snapHeld>>
    /\ SnapFrame

\* f.Stat() is called.  The whole values it may return are the node's Stat
\* now or, when an assignment is under way, the Stat before it and after it.
SnapStatCall ==
    /\ snapR.pc = "idle"
    /\ ~StatWaits(snapLock)
    /\ snapR' = [pc |-> "copy", ret |-> SentinelStat, i |-> 1,
                 whole |-> IF snapW.pc = "assign"
                           THEN {s \in SnapStats :
                                    \A k \in 1..Len(StatFields) :
                                       s[StatFields[k]] = snapStat[StatFields[k]]
                                       \/ k < snapW.i} \cup {snapW.arg}
                           ELSE {snapStat}]
    /\ UNCHANGED <<snapStat, snapLock, snapW, snapHeld>>
    /\ SnapFrame

\* return f.fStat, one field.
SnapCopyField ==
    /\ snapR.pc = "copy"
    /\ ~StatWaits(snapLock)
    /\ snapR' = IF snapR.i = Len(StatFields)
                THEN [snapR EXCEPT !.ret = CopyField(@, snapStat, snapR.i),
                                   !.pc = "return"]
                ELSE [snapR EXCEPT !.ret = CopyField(@, snapStat, snapR.i),
                                   !.i = @ + 1]
    /\ UNCHANGED <<snapStat, snapLock, snapW, snapHeld>>
    /\ SnapFrame

\* Stat returns; the caller holds the value.
SnapStatReturn ==
    /\ snapR.pc = "return"
    /\ snapHeld' = snapR.ret
    /\ snapR' = [snapR EXCEPT !.pc = "idle"]
    /\ UNCHANGED <<snapStat, snapLock, snapW>>
    /\ SnapFrame

SnapNext ==
    \/ \E s \in SnapStats : SnapWriteStat(s)
    \/ SnapAssignField
    \/ SnapUnlock
    \/ SnapStatCall
    \/ SnapCopyField
    \/ SnapStatReturn

\* The node is not used.
SnapIdle ==
    /\ snapStat = SentinelStat
    /\ snapLock = FALSE
    /\ snapW = <<>>
    /\ snapR = <<>>
    /\ snapHeld = SentinelStat

-----------------------------------------------------------------------------
(* The FUSE bridge: one Dir of the mounted tree, at path "/", its cached   *)
(* listing, and the requests its handlers send to the 9P server.  Time is  *)
(* counted in seconds.  The server's directory holds some of the names     *)
(* "a", "b" (files) and "d" (a directory), and other clients change it.    *)

DefaultTTL == 5
MaxNow == 7
MaxListing == 4

ServerNames == <<"a", "b", "d">>
IsDirName(nm) == nm = "d"
ZeroTime == 0

\* A []proto.Stat: nil, or a sequence of entries.
NilListing == [isNil |-> TRUE, stats |-> <<>>]
ListingOf(names) == [isNil |-> FALSE,
                     stats |-> [i \in 1..Len(names) |->
                                  [Name |-> names[i], IsDir |-> IsDirName(names[i])]]]
ListingNames(l) == {l.stats[i].Name : i \in 1..Len(l.stats)}

\* What client.Readdir returns for the directory srv; for an empty
\* directory the slice is nil or empty, as asNil says.
ReaddirReply(srv, asNil) ==
    LET names == SelectSeq(ServerNames, LAMBDA nm : nm \in srv)
    IN  IF names = <<>> /\ asNil THEN NilListing ELSE ListingOf(names)

\* r.dirCache == nil || time.Now().After(r.dirTTL)
NeedsFetch_AtExpiry(cache, ttl, t) == cache.isNil \/ t >= ttl
NeedsFetch(cache, ttl, t) == cache.isNil \/ t > ttl

\* The SetAttrIn of a Setattr request: GetMode and GetSize return the value
\* and whether the request marks it as set.
SetAttrIns == [modeValid : BOOLEAN, Mode : {U32(420)},
               sizeValid : BOOLEAN, Size : {U64(5)}]
NoSetAttrIn == [modeValid |-> FALSE, Mode |-> U32(0),
                sizeValid |-> FALSE, Size |-> U64(0)]
GetMode(in) == [val |-> in.Mode, ok |-> in.modeValid]
GetSize(in) == [val |-> in.Size, ok |-> in.sizeValid]

\* The paths whose attributes the bridge sets, and the Stat the server
\* holds for each at the start.
SetattrPaths == {"/", "a"}
ServedStat ==
    [Type |-> 0, Dev |-> U32(0),
     Qid |-> [Qtype |-> 0, Vers |-> U32(0), Uid |-> U64(1)],
     Mode |-> U32(384), Atime |-> U32(7), Mtime |-> U32(7),
     Length |-> U64(3), Name |-> "a",
     Uid |-> "alice", Gid |-> "staff", Muid |-> "alice"]

\* What a 9P server makes of a WStat: a field at its sentinel is left as it
\* is, every other field is set.
ServerWStat(old, s) ==
    [f \in DOMAIN old |-> IF s[f] = SentinelStat[f] THEN old[f] ELSE s[f]]

\* The Stat that Dir.Rename sends.
RenameStat(newName) == [SentinelStat EXCEPT !.Name = newName]

\* The Stat that Dir.Setattr and FileNode.Setattr build, and whether they
\* send it.
SetattrStat_Unconditional(in) ==
    [SentinelStat EXCEPT !.Mode = in.Mode, !.Length = in.Size]
SetattrStat(in) ==
    LET s1 == IF GetMode(in).ok THEN [SentinelStat EXCEPT !.Mode = GetMode(in).val]
              ELSE SentinelStat
    IN  IF GetSize(in).ok THEN [s1 EXCEPT !.Length = GetSize(in).val] ELSE s1
SetattrSends(in) == GetMode(in).ok \/ GetSize(in).ok

NoBridgeCall == [op |-> "none", name |-> "", newParent |-> "", newName |-> "",
                 in |-> NoSetAttrIn, at |-> 0, end |-> 0,
                 cacheBefore |-> NilListing,
                 ttlBefore |-> ZeroTime, reply |-> NilListing, answer |-> <<>>,
                 rejected |-> FALSE, errno |-> "none"]

\* At the start the Dir has fetched no listing, or has just fetched one.
BridgeInit ==
    /\ now = 1
    /\ srvDir \in SUBSET {"a", "d"}
    /\ \/ dirCache = NilListing /\ dirTTL = ZeroTime
       \/ /\ dirCache = ReaddirReply(srvDir, FALSE)
          /\ dirTTL = now + DefaultTTL
    /\ dirCacheMap = {}
    /\ wire = <<>>
    /\ bridgeLog = NoBridgeCall
    /\ mutated = FALSE
    /\ srvStat = [p \in SetattrPaths |-> ServedStat]

\* A second passes.
Tick ==
    /\ now < MaxNow
    /\ now' = now + 1
    /\ UNCHANGED <<srvDir, dirCache, dirTTL, dirCacheMap, wire, bridgeLog, mutated, srvStat>>
    /\ BridgeFrame

\* Another client creates or removes a name on the server.
ServerChange(nm) ==
    /\ srvDir' = IF nm \in srvDir THEN srvDir \ {nm} ELSE srvDir \cup {nm}
    /\ UNCHANGED <<now, dirCache, dirTTL, dirCacheMap, wire, bridgeLog, mutated, srvStat>>
    /\ BridgeFrame

Request(op, path, stat) == [op |-> op, path |-> path, stat |-> stat]

\* The head of Dir.Lookup and Dir.Readdir: the listing is fetched when
\* NeedsFetch says so; the server answers or not (ok), after dt seconds.
Fetch(ok, dt, asNil) ==
    LET need == NeedsFetch(dirCache, dirTTL, now)
        reply == ReaddirReply(srvDir, asNil)
    IN  [failed |-> need /\ ~ok,
         fetched |-> need /\ ok,
         now |-> IF need THEN now + dt ELSE now,
         reply |-> IF need /\ ok THEN reply ELSE NilListing,
         cache |-> IF need /\ ok THEN reply ELSE dirCache,
         ttl |-> IF need /\ ok THEN (now + dt) + DefaultTTL ELSE dirTTL,
         wire |-> IF need THEN <<Request("Readdir", "/", SentinelStat)>> ELSE <<>>]

\* r.Lookup(name).
DirLookup(name, ok, dt, asNil) ==
    LET f == Fetch(ok, dt, asNil)
        found == name \in ListingNames(f.cache)
    IN  /\ f.now <= MaxNow
        /\ now' = f.now
        /\ wire' = f.wire
        /\ dirCache' = f.cache
        /\ dirTTL' = f.ttl
        /\ dirCacheMap' = IF ~f.failed /\ found /\ IsDirName(name)
                          THEN dirCacheMap \cup {name} ELSE dirCacheMap
        /\ bridgeLog' = [NoBridgeCall EXCEPT
                            !.op = "Lookup", !.name = name, !.at = now,
                            !.end = f.now,
                            !.cacheBefore = dirCache, !.ttlBefore = dirTTL,
                            !.reply = f.reply,
                            !.errno = IF f.failed THEN "EPIPE"
                                      ELSE IF found THEN "OK" ELSE "ENOENT"]
        /\ mutated' = (mutated /\ ~f.fetched)
        /\ UNCHANGED <<srvDir, srvStat>>
        /\ BridgeFrame

\* r.Readdir().
DirReaddir(ok, dt, asNil) ==
    LET f == Fetch(ok, dt, asNil)
    IN  /\ f.now <= MaxNow
        /\ now' = f.now
        /\ wire' = f.wire
        /\ dirCache' = f.cache
        /\ dirTTL' = f.ttl
        /\ bridgeLog' = [NoBridgeCall EXCEPT
                            !.op = "Readdir", !.at = now, !.end = f.now,
                            !.cacheBefore = dirCache, !.ttlBefore = dirTTL,
                            !.reply = f.reply,
                            !.answer = IF f.failed THEN <<>> ELSE f.cache.stats,
                            !.errno = IF f.failed THEN "EPIPE" ELSE "OK"]
        /\ mutated' = (mutated /\ ~f.fetched)
        /\ UNCHANGED <<srvDir, dirCacheMap, srvStat>>
        /\ BridgeFrame

\* Dir.dirTTL after a mutation: a handler whose request the server
\* rejected returns before it touches the Dir; otherwise
\* r.dirTTL = time.Time{}.
TTLAfter_Kept(done, ttl) == ttl
TTLAfter_Always(done, ttl) == ZeroTime
TTLAfter(done, ttl) == IF done THEN ZeroTime ELSE ttl

\* r.Rename(name, newParent, newName): newParent is r itself ("self"),
\* another Dir or no Dir at all.  The server renames a file that exists.
DirRename(name, newParent, newName, ok) ==
    LET renamed == ok /\ name \in srvDir
    IN  /\ IF newParent # "self"
           THEN /\ wire' = <<>>
                /\ UNCHANGED <<srvDir, dirTTL>>
           ELSE /\ wire' = <<Request("WStat", name, RenameStat(newName))>>
                /\ srvDir' = IF renamed /\ newName # ""
                             THEN (srvDir \ {name}) \cup {newName} ELSE srvDir
                /\ dirTTL' = TTLAfter(renamed, dirTTL)
        /\ bridgeLog' = [NoBridgeCall EXCEPT
                            !.op = "Rename", !.name = name,
                            !.newParent = newParent, !.newName = newName,
                            !.at = now, !.end = now,
                            !.cacheBefore = dirCache, !.ttlBefore = dirTTL,
                            !.rejected = (newParent = "self" /\ ~renamed),
                            !.errno = IF newParent # "self" THEN "EINVAL"
                                      ELSE IF renamed THEN "OK" ELSE "ENOENT"]
        /\ mutated' = (mutated \/ (newParent = "self" /\ renamed))
        /\ UNCHANGED <<now, dirCache, dirCacheMap, srvStat>>
        /\ BridgeFrame

\* Setattr of the node at path: r.Setattr(in) and f.Setattr(in) are the
\* same code.
Setattr(op, path, in, ok) ==
    /\ wire' = IF SetattrSends(in)
               THEN <<Request("WStat", path, SetattrStat(in))>> ELSE <<>>
    /\ bridgeLog' = [NoBridgeCall EXCEPT
                        !.op = op, !.name = path, !.in = in, !.at = now,
                        !.end = now,
                        !.cacheBefore = dirCache, !.ttlBefore = dirTTL,
                        !.errno = IF SetattrSends(in) /\ ~ok THEN "ENOENT" ELSE "OK"]
    /\ srvStat' = IF SetattrSends(in) /\ ok
                   THEN [srvStat EXCEPT ![path] = ServerWStat(@, SetattrStat(in))]
                   ELSE srvStat
    /\ UNCHANGED <<now, srvDir, dirCache, dirTTL, dirCacheMap, mutated>>
    /\ BridgeFrame

DirSetattr(in, ok) == Setattr("Dir.Setattr", "/", in, ok)
FileNodeSetattr(in, ok) == Setattr("FileNode.Setattr", "a", in, ok)

\* The Stat that File.Setattr sends: the one the server returned, with
\* stat.Mode = in.Mode and stat.Length = in.Size.
FileSetattrStat(stat, in) == [stat EXCEPT !.Mode = in.Mode, !.Length = in.Size]

\* f.Setattr(in) of the open handle of "a": client.Stat answers or not
\* (statOk), and so does client.WStat (ok).
FileSetattr(in, statOk, ok) ==
    LET stat == FileSetattrStat(srvStat["a"], in)
    IN  /\ wire' = IF statOk
                   THEN <<Request("Stat", "a", SentinelStat),
                          Request("WStat", "a", stat)>>
                   ELSE <<Request("Stat", "a", SentinelStat)>>
        /\ srvStat' = IF statOk /\ ok
                       THEN [srvStat EXCEPT !["a"] = ServerWStat(@, stat)]
                       ELSE srvStat
        /\ bridgeLog' = [NoBridgeCall EXCEPT
                            !.op = "File.Setattr", !.name = "a", !.in = in,
                            !.at = now, !.end = now,
                            !.cacheBefore = dirCache, !.ttlBefore = dirTTL,
                            !.rejected = ~(statOk /\ ok),
                            !.errno = IF statOk /\ ok THEN "OK" ELSE "ENOENT"]
        /\ UNCHANGED <<now, srvDir, dirCache, dirTTL, dirCacheMap, mutated>>
        /\ BridgeFrame

\* The server creates a name that does not exist and removes one that
\* exists; ok = FALSE stands for any other refusal.
Created(name, ok) == ok /\ name \notin srvDir
Removed(name, ok) == ok /\ name \in srvDir

\* r.dirCache = append(r.dirCache, proto.Stat{Mode: mode, Name: name})
AppendEntry(cache, name, isDir) ==
    [isNil |-> FALSE,
     stats |-> Append(cache.stats, [Name |-> name, IsDir |-> isDir])]

\* r.Unlink(name) and r.Rmdir(name) are the same code.
Remove(op, name, ok) ==
    LET done == Removed(name, ok)
    IN  /\ wire' = <<Request("Remove", name, SentinelStat)>>
        /\ srvDir' = IF done THEN srvDir \ {name} ELSE srvDir
        /\ dirTTL' = TTLAfter(done, dirTTL)
        /\ mutated' = (mutated \/ done)
        /\ bridgeLog' = [NoBridgeCall EXCEPT
                            !.op = op, !.name = name, !.at = now, !.end = now,
                            !.cacheBefore = dirCache, !.ttlBefore = dirTTL,
                            !.rejected = ~done,
                            !.errno = IF done THEN "OK" ELSE "EINVAL"]
        /\ UNCHANGED <<now, dirCache, dirCacheMap, srvStat>>
        /\ BridgeFrame

DirUnlink(name, ok) == Remove("Unlink", name, ok)
DirRmdir(name, ok) == Remove("Rmdir", name, ok)

\* r.Mkdir(name, mode) and r.Create(name, flags, mode): Mkdir also
\* registers a Dir for the new path.
Make(op, name, ok) ==
    LET done == Created(name, ok)
        isDir == op = "Mkdir"
    IN  /\ Len(dirCache.stats) < MaxListing
        /\ wire' = <<Request("Create", name, SentinelStat)>>
        /\ srvDir' = IF done THEN srvDir \cup {name} ELSE srvDir
        /\ dirTTL' = TTLAfter(done, dirTTL)
        /\ dirCache' = IF done THEN AppendEntry(dirCache, name, isDir)
                        ELSE dirCache
        /\ dirCacheMap' = IF done /\ isDir THEN dirCacheMap \cup {name}
                           ELSE dirCacheMap
        /\ mutated' = (mutated \/ done)
        /\ bridgeLog' = [NoBridgeCall EXCEPT
                            !.op = op, !.name = name, !.at = now, !.end = now,
                            !.cacheBefore = dirCache, !.ttlBefore = dirTTL,
                            !.rejected = ~done,
                            !.errno = IF done THEN "OK" ELSE "EINVAL"]
        /\ UNCHANGED <<now, srvStat>>
        /\ BridgeFrame

DirMkdir(name, ok) == Make("Mkdir", name, ok)
DirCreate(name, ok) == Make("Create", name, ok)

\* The listing and its cache.
BridgeNext ==
    \/ Tick
    \/ \E nm \in {"a", "d"} : ServerChange(nm)
    \/ \E nm \in {"a", "d"}, ok \in BOOLEAN, dt \in {0, 1}, asNil \in BOOLEAN :
          DirLookup(nm, ok, dt, asNil)
    \/ \E ok \in BOOLEAN, dt \in {0, 1}, asNil \in BOOLEAN : DirReaddir(ok, dt, asNil)

\* The requests that change attributes.
AttrNext ==
    \/ \E nm \in {"a", "b"}, np \in {"self", "other", "notDir"},
          nn \in {"a", "b", ""}, ok \in BOOLEAN : DirRename(nm, np, nn, ok)
    \/ \E in \in SetAttrIns, ok \in BOOLEAN : DirSetattr(in, ok)
    \/ \E in \in SetAttrIns, ok \in BOOLEAN : FileNodeSetattr(in, ok)
    \/ \E in \in SetAttrIns, statOk \in BOOLEAN, ok \in BOOLEAN :
          FileSetattr(in, statOk, ok)

\* The mutations through the Dir, and the listing between them, all
\* within the life of one listing.
MutateNext ==
    \/ \E nm \in {"a", "d"}, ok \in BOOLEAN, asNil \in BOOLEAN :
          DirLookup(nm, ok, 0, asNil)
    \/ \E ok \in BOOLEAN, asNil \in BOOLEAN : DirReaddir(ok, 0, asNil)
    \/ \E nm \in {"a", "b"}, ok \in BOOLEAN : DirUnlink(nm, ok)
    \/ \E ok \in BOOLEAN : DirRmdir("d", ok)
    \/ \E ok \in BOOLEAN : DirMkdir("d", ok)
    \/ \E ok \in BOOLEAN : DirCreate("a", ok)
    \/ \E nm \in {"a", "b"}, np \in {"self", "other", "notDir"},
          nn \in {"a", "b"}, ok \in BOOLEAN : DirRename(nm, np, nn, ok)

\* The bridge is not used.
BridgeIdle ==
    /\ now = 0
    /\ srvDir = {}
    /\ dirCache = NilListing
    /\ dirTTL = ZeroTime
    /\ dirCacheMap = {}
    /\ wire = <<>>
    /\ bridgeLog = NoBridgeCall
    /\ mutated = FALSE
    /\ srvStat = [p \in SetattrPaths |-> ServedStat]

-----------------------------------------------------------------------------
(* convertFlag: the open flags of a FUSE request to the open mode of 9P.   *)
(* The values of os.O_TRUNC, os.O_APPEND, os.O_SYNC and O_NONBLOCK are     *)
(* those of package syscall, which differ from one target of the build to  *)
(* another; the access modes are 0, 1 and 2 on every target.               *)

O_RDONLY == 0
O_WRONLY == 1
O_RDWR == 2
Otrunc == 16
LowNibble == 15

Targets == {"linux", "darwin"}
O_TRUNC(target) == IF target = "linux" THEN 512 ELSE 1024
O_APPEND(target) == IF target = "linux" THEN 1024 ELSE 8
O_NONBLOCK(target) == IF target = "linux" THEN 2048 ELSE 4
O_SYNC(target) == IF target = "linux" THEN 1052672 ELSE 128

\* a | b for naturals.
BitOr(a, b) == a + b - BitAnd(a, b)

\* The sum of the flags of a set.
RECURSIVE FlagSum(_)
FlagSum(S) == IF S = {} THEN 0
              ELSE LET x == CHOOSE y \in S : TRUE IN x + FlagSum(S \ {x})

\* The flags of an open: an access mode and any of truncate, append,
\* non-blocking and synchronous.
OpenFlags(target) ==
    {acc + FlagSum(S) : acc \in {O_RDONLY, O_WRONLY, O_RDWR},
                        S \in SUBSET {O_TRUNC(target), O_APPEND(target),
                                      O_NONBLOCK(target), O_SYNC(target)}}

convertFlag(target, mode) ==
    LET low == BitAnd(mode, LowNibble)
        m == IF low = O_RDONLY THEN Oread
             ELSE IF low = O_WRONLY THEN Owrite
             ELSE IF low = O_RDWR THEN Ordwr
             ELSE 0
    IN  IF BitAnd(mode, O_TRUNC(target)) > 0 THEN BitOr(m, Otrunc) ELSE m

FlagInit ==
    /\ flagTarget \in Targets
    /\ flagIn \in OpenFlags(flagTarget)
    /\ flagOut = [done |-> FALSE, m |-> 0]

\* FileNode.Open computes the mode it opens the file with.
ConvertFlag ==
    /\ ~flagOut.done
    /\ flagOut' = [done |-> TRUE, m |-> convertFlag(flagTarget, flagIn)]
    /\ UNCHANGED <<flagTarget, flagIn>>
    /\ FlagFrame

FlagNext == ConvertFlag

\* convertFlag is not used.
FlagIdle ==
    /\ flagTarget = "linux"
    /\ flagIn = 0
    /\ flagOut = [done |-> TRUE, m |-> 0]

-----------------------------------------------------------------------------
(* FullPath.  A string is the sequence of its characters here.  The nodes  *)
(* of one parent chain are numbered from the root, 1, down; the parent of  *)
(* node f is f - 1, and node 0 is nil.                                     *)

MaxDepth == 2

\* strings.Replace(s, "//", "/", -1): the non-overlapping occurrences, from
\* the left.
ReplaceAll_Keeps(s) == s
RECURSIVE ReplaceAll(_)
ReplaceAll(s) ==
    IF Len(s) < 2 THEN s
    ELSE IF s[1] = "/" /\ s[2] = "/"
         THEN <<"/">> \o ReplaceAll(SubSeq(s, 3, Len(s)))
         ELSE <<s[1]>> \o ReplaceAll(Tail(s))

\* chain[f] is f.Stat().Name.
RECURSIVE FullPath(_, _)
FullPath(chain, f) ==
    IF f = 0 THEN <<>>
    ELSE LET parent == f - 1
         IN  IF parent = 0 THEN chain[f]
             ELSE ReplaceAll(FullPath(chain, parent) \o <<"/">> \o chain[f])

\* The names of roots and of other nodes: ordinary names, the empty name
\* and a name with a slash in it.
RootNames == {<<"/">>, <<"r">>}
PathNames == {<<"a">>, <<"b", "c">>, <<>>, <<"x", "/">>}

\* The parent chains of depth up to MaxDepth.
PathChains ==
    UNION {{<<r>> \o c : r \in RootNames, c \in [1..k -> PathNames]} : k \in 0..MaxDepth}

PathInit ==
    /\ pathChain \in PathChains
    /\ pathNode \in 0..Len(pathChain)
    /\ pathOut = [done |-> FALSE, path |-> <<>>]

\* FullPath(f) is called.
CallFullPath ==
    /\ ~pathOut.done
    /\ pathOut' = [done |-> TRUE, path |-> FullPath(pathChain, pathNode)]
    /\ UNCHANGED <<pathChain, pathNode>>
    /\ PathFrame

PathNext == CallFullPath

\* FullPath is not used.
PathIdle ==
    /\ pathChain = <<>>
    /\ pathNode = 0
    /\ pathOut = [done |-> TRUE, path |-> <<>>]

-----------------------------------------------------------------------------
(* ReadWriteCloser: a ReadCloser and a WriteCloser closed together.  Each  *)
(* half answers a Close with nil ("") or with an error, and keeps a record *)
(* of the Close calls made on it.  A message is a sequence of words.       *)

MaxCloseCalls == 3

CloseErrs == {"", "EIO", "EBADF"}
NoClose == [done |-> FALSE, isNil |-> TRUE, text |-> <<>>]

\* fmt.Errorf(format, args...): each %s of the format is replaced by the
\* next argument.
RECURSIVE Errorf(_, _)
Errorf(format, args) ==
    IF format = <<>> THEN <<>>
    ELSE IF Head(format) = "%s" /\ args # <<>>
         THEN <<Head(args)>> \o Errorf(Tail(format), Tail(args))
         ELSE <<Head(format)>> \o Errorf(Tail(format), args)

BothFailedFormat == <<"Read", "and", "Write", "failed", "to", "close:",
                      "[Read:", "%s", "],", "[Write:", "%s", "]">>
ReadFailedFormat == <<"Read", "failed", "to", "close:", "%s">>
WriteFailedFormat == <<"Write", "failed", "to", "close:", "%s">>

\* Whether Close goes on to close the write half after the read half
\* answered err1: it does, whatever err1 is.
ClosesWrite_UnlessReadFailed(err1) == err1 = ""
ClosesWrite(err1) == TRUE

\* The value Close returns for the two answers.
CloseResult(err1, err2) ==
    IF err1 # "" /\ err2 # ""
    THEN [done |-> TRUE, isNil |-> FALSE,
          text |-> Errorf(BothFailedFormat, <<err1, err2>>)]
    ELSE IF err1 # ""
    THEN [done |-> TRUE, isNil |-> FALSE, text |-> Errorf(ReadFailedFormat, <<err1>>)]
    ELSE IF err2 # ""
    THEN [done |-> TRUE, isNil |-> FALSE, text |-> Errorf(WriteFailedFormat, <<err2>>)]
    ELSE [done |-> TRUE, isNil |-> TRUE, text |-> <<>>]

CloserInit ==
    /\ rLog = <<>>
    /\ wLog = <<>>
    /\ closeOut = NoClose

\* r.Close(): the read half answers e1 and the write half e2.
Close(e1, e2) ==
    LET err1 == e1
        err2 == IF ClosesWrite(err1) THEN e2 ELSE ""
    IN  /\ Len(rLog) < MaxCloseCalls
        /\ rLog' = Append(rLog, err1)
        /\ wLog' = IF ClosesWrite(err1) THEN Append(wLog, e2) ELSE wLog
        /\ closeOut' = CloseResult(err1, err2)
        /\ CloserFrame

CloserNext ==
    \E e1 \in CloseErrs, e2 \in CloseErrs : Close(e1, e2)

\* The ReadWriteCloser is not used.
CloserIdle ==
    /\ rLog = <<>>
    /\ wLog = <<>>
    /\ closeOut = NoClose

-----------------------------------------------------------------------------
(* The specifications.                                                     *)

InitPerm == PermInit /\ StatIdle /\ QidIdle /\ CodecIdle /\ ReplyIdle /\ TreeIdle /\ SnapIdle /\ BridgeIdle /\ FlagIdle /\ PathIdle /\ CloserIdle
SpecPerm == InitPerm /\ [][PermNext]_vars

InitStat == StatInit /\ PermIdle /\ QidIdle /\ CodecIdle /\ ReplyIdle /\ TreeIdle /\ SnapIdle /\ BridgeIdle /\ FlagIdle /\ PathIdle /\ CloserIdle
SpecStat == InitStat /\ [][StatNext]_vars

InitFile == StatInit /\ PermIdle /\ QidIdle /\ CodecIdle /\ ReplyIdle /\ TreeIdle /\ SnapIdle /\ BridgeIdle /\ FlagIdle /\ PathIdle /\ CloserIdle
SpecFile == InitFile /\ [][FileNext]_vars

InitQid == QidInit /\ PermIdle /\ StatIdle /\ CodecIdle /\ ReplyIdle /\ TreeIdle /\ SnapIdle /\ BridgeIdle /\ FlagIdle /\ PathIdle /\ CloserIdle
SpecQid == InitQid /\ [][QidNext]_vars

InitCodec == CodecInit /\ PermIdle /\ StatIdle /\ QidIdle /\ ReplyIdle /\ TreeIdle /\ SnapIdle /\ BridgeIdle /\ FlagIdle /\ PathIdle /\ CloserIdle
SpecCodec == InitCodec /\ [][CodecNext]_vars

InitReply == ReplyInit /\ PermIdle /\ StatIdle /\ QidIdle /\ CodecIdle /\ TreeIdle /\ SnapIdle /\ BridgeIdle /\ FlagIdle /\ PathIdle /\ CloserIdle
SpecReply == InitReply /\ [][ReplyNext]_vars

InitTree == TreeInit /\ PermIdle /\ StatIdle /\ QidIdle /\ CodecIdle /\ ReplyIdle /\ SnapIdle /\ BridgeIdle /\ FlagIdle /\ PathIdle /\ CloserIdle
SpecTree == InitTree /\ [][TreeNext]_vars

InitSnap == SnapInit /\ PermIdle /\ StatIdle /\ QidIdle /\ CodecIdle /\ ReplyIdle /\ TreeIdle /\ BridgeIdle /\ FlagIdle /\ PathIdle /\ CloserIdle
SpecSnap == InitSnap /\ [][SnapNext]_vars

InitBridge == BridgeInit /\ PermIdle /\ StatIdle /\ QidIdle /\ CodecIdle /\ ReplyIdle /\ TreeIdle /\ SnapIdle /\ FlagIdle /\ PathIdle /\ CloserIdle
SpecBridge == InitBridge /\ [][BridgeNext]_vars

InitAttr == BridgeInit /\ PermIdle /\ StatIdle /\ QidIdle /\ CodecIdle /\ ReplyIdle /\ TreeIdle /\ SnapIdle /\ FlagIdle /\ PathIdle /\ CloserIdle
SpecAttr == InitAttr /\ [][AttrNext]_vars

InitMutate == BridgeInit /\ PermIdle /\ StatIdle /\ QidIdle /\ CodecIdle /\ ReplyIdle /\ TreeIdle /\ SnapIdle /\ FlagIdle /\ PathIdle /\ CloserIdle
SpecMutate == InitMutate /\ [][MutateNext]_vars

InitFlag == FlagInit /\ PermIdle /\ StatIdle /\ QidIdle /\ CodecIdle /\ ReplyIdle /\ TreeIdle /\ SnapIdle /\ BridgeIdle /\ PathIdle /\ CloserIdle
SpecFlag == InitFlag /\ [][FlagNext]_vars

InitPath == PathInit /\ PermIdle /\ StatIdle /\ QidIdle /\ CodecIdle /\ ReplyIdle /\ TreeIdle /\ SnapIdle /\ BridgeIdle /\ FlagIdle /\ CloserIdle
SpecPath == InitPath /\ [][PathNext]_vars

InitCloser == CloserInit /\ PermIdle /\ StatIdle /\ QidIdle /\ CodecIdle /\ ReplyIdle /\ TreeIdle /\ SnapIdle /\ BridgeIdle /\ FlagIdle /\ PathIdle
SpecCloser == InitCloser /\ [][CloserNext]_vars


-----------------------------------------------------------------------------
(* The permission claims.  The segments are read off the mode by division, *)
(* not by the shifts and masks of the code.                                *)

OwnerBits(mode) == (mode[2] \div 64) % 8
GroupBits(mode) == (mode[2] \div 8) % 8
OtherBits(mode) == mode[2] % 8

SegmentOf(mode, rel) ==
    CASE rel = ugo_user -> OwnerBits(mode)
      [] rel = ugo_group -> GroupBits(mode)
      [] rel = ugo_other -> OtherBits(mode)

HasBit(seg, bit) == (seg \div bit) % 2 = 1

PermMode == permIn.file.Stat.Mode
PermSegment == SegmentOf(PermMode, permOut.relation)

\* C1: a ReadWrite open is allowed only when the selected segment has both
\* the read bit 0x4 and the write bit 0x2; a segment with only one of the
\* two is denied.
C1_ReadWriteNeedsBoth ==
    (permOut.done /\ permIn.omode = Ordwr)
        => (permOut.allowed <=> (HasBit(PermSegment, 4) /\ HasBit(PermSegment, 2)))

\* C2: Read, Write and Execute are allowed exactly when the segment of the
\* user's relation (owner: bits 6-8, group: bits 3-5, other: bits 0-2) has
\* the bit 0x4, 0x2 and 0x1 respectively; nothing else of the mode counts.
C2_SegmentAndBit ==
    permOut.done =>
        /\ permIn.omode = Oread => (permOut.allowed <=> HasBit(PermSegment, 4))
        /\ permIn.omode = Owrite => (permOut.allowed <=> HasBit(PermSegment, 2))
        /\ permIn.omode = Oexec => (permOut.allowed <=> HasBit(PermSegment, 1))

\* A group member writes a directory whose group bits alone allow writing.
C2_Witness ==
    /\ permOut.done
    /\ permOut.relation = ugo_group
    /\ permIn.omode = Owrite
    /\ PermMode[1] = DMDIR[1]
    /\ GroupBits(PermMode) = 2
    /\ OwnerBits(PermMode) = 5
    /\ OtherBits(PermMode) = 5
    /\ permOut.allowed

\* C3: the check is fail-closed: None and every open mode that is not
\* exactly Read, Write, ReadWrite or Execute is denied, whatever the user,
\* the relation and the permission bits.
C3_FailClosed ==
    (permOut.done /\ permIn.omode \notin {Oread, Owrite, Ordwr, Oexec})
        => ~permOut.allowed

\* The owner of a file of permission 0777 opens it with ReadWrite|truncate.
C3_Witness ==
    /\ permOut.done
    /\ permIn.omode = 18
    /\ permOut.relation = ugo_user
    /\ PermMode[2] % 512 = 511
    /\ ~permOut.allowed

\* C4: the user is the owner when it equals the owning user, otherwise in
\* the group when it equals the owning group, otherwise other; the owner is
\* checked against the owner bits only.
C4_Relation ==
    permOut.done =>
        /\ permOut.relation =
              (IF permIn.user = permIn.file.Stat.Uid THEN ugo_user
               ELSE IF permIn.user = permIn.file.Stat.Gid THEN ugo_group
               ELSE ugo_other)
        /\ permIn.user = permIn.file.Stat.Uid =>
              (permOut.allowed <=> omodePermits(OwnerBits(PermMode), permIn.omode))

\* A user that is both the owner and the group is denied by owner bits 0
\* although the group and other bits are 7.
C4_Witness ==
    /\ permOut.done
    /\ permIn.user = permIn.file.Stat.Uid
    /\ permIn.user = permIn.file.Stat.Gid
    /\ permIn.omode = Oread
    /\ OwnerBits(PermMode) = 0
    /\ GroupBits(PermMode) = 7
    /\ OtherBits(PermMode) = 7
    /\ ~permOut.allowed

-----------------------------------------------------------------------------
(* The claims about BaseFile.                                              *)

\* C5: WriteStat applies only the fields that are not marked unchanged:
\* after a WriteStat whose every field is its sentinel except mode = 0644,
\* the node's mode is 0644 and every other field is as before the call.
C5_PartialWStat ==
    (statLog.op = "WriteStat" /\ statLog.arg = [SentinelStat EXCEPT !.Mode = U32(420)])
        => fStat = [statLog.before EXCEPT !.Mode = U32(420)]

-----------------------------------------------------------------------------
(* The claims about the Qid counter.                                       *)

\* a < b for uint64s.
Lt64(a, b) ==
    \E i \in 1..4 : a[i] < b[i] /\ \A j \in 1..(i - 1) : a[j] = b[j]

\* C6: no two calls of NewQid return the same id, a call that starts after
\* another has returned gets a strictly greater id, and no two live nodes
\* have the same Qid id.
C6_QidUnique ==
    /\ \A i, j \in 1..Len(returned) :
          i # j => returned[i].qid.Uid # returned[j].qid.Uid
    /\ \A j \in 1..Len(returned) : \A i \in 1..returned[j].started :
          Lt64(returned[i].qid.Uid, returned[j].qid.Uid)
    /\ \A i, j \in live : i # j => returned[i].qid.Uid # returned[j].qid.Uid

\* Two calls that overlapped have both returned, after the call made for
\* the root; a node was added with each Qid and the first was deleted.
C6_Witness ==
    /\ Len(returned) = 3
    /\ returned[2].started = 1
    /\ returned[3].started = 1
    /\ returned[2].node
    /\ returned[3].node
    /\ live = {1, 3}

-----------------------------------------------------------------------------
(* The claims about the codec.                                             *)

\* C7: parsing the frame composed from a TAuth or an RAuth yields the
\* message field for field and consumes the whole frame.
C7_RoundTrip ==
    (codecPc = "done" /\ buffer = frame)
        => (parsed.status = "ok" /\ parsed.msg = msg /\ parsed.rest = <<>>)

\* A TAuth with afid 0xFFFFFFFF and two different non-empty names, one with
\* a zero byte, has made the round trip.
C7_Witness ==
    /\ codecPc = "done" /\ buffer = frame
    /\ codecKind = "TAuth"
    /\ msg.Afid = MaxUint32
    /\ msg.Uname = <<97, 0>>
    /\ msg.Aname = <<97>>
    /\ parsed.msg = msg

\* C8: the size field of a composed frame is the number of bytes of the
\* frame, itself included: 15 + len(uname) + len(aname) for a TAuth and 20
\* for an RAuth; the type code is byte 4, the tag bytes 5-6, and a string is
\* its 2-byte little-endian length and then its bytes, with no terminator.
C8_LengthPrefix ==
    codecPc # "compose" =>
        /\ Len(frame) = (IF codecKind = "TAuth"
                         THEN 4 + 1 + 2 + 4 + (2 + Len(msg.Uname)) + (2 + Len(msg.Aname))
                         ELSE 20)
        /\ frame[1] + 256 * frame[2] = Len(frame)
        /\ frame[3] = 0 /\ frame[4] = 0
        /\ frame[5] = msg.FCall.Ctype
        /\ frame[6] + 256 * frame[7] = msg.FCall.Tag
        /\ codecKind = "TAuth" =>
              LET ul == Len(msg.Uname)
                  al == Len(msg.Aname)
              IN  /\ frame[12] + 256 * frame[13] = ul
                  /\ SubSeq(frame, 14, 13 + ul) = msg.Uname
                  /\ frame[14 + ul] + 256 * frame[15 + ul] = al
                  /\ SubSeq(frame, 16 + ul, 15 + ul + al) = msg.Aname

\* A TAuth of 18 bytes with a zero byte in each name has been composed.
C8_Witness ==
    /\ codecPc = "deliver"
    /\ codecKind = "TAuth"
    /\ msg.Uname = <<97, 0>>
    /\ msg.Aname = <<0>>
    /\ Len(frame) = 18
    /\ frame[1] = 18

\* Whether the size field of b declares more bytes than b has.
DeclaresMore(b) == b[3] # 0 \/ b[4] # 0 \/ b[1] + 256 * b[2] > Len(b)

\* Whether b ends inside the afid, inside the length of uname or aname, or
\* before the declared bytes of uname or aname.
EndsInTAuthField(b) ==
    \/ Len(b) < 11
    \/ Len(b) < 13
    \/ Len(b) < 13 + LimbOf(b, 12)
    \/ Len(b) < 15 + LimbOf(b, 12)
    \/ Len(b) < 15 + LimbOf(b, 12) + LimbOf(b, 14 + LimbOf(b, 12))

TAuthTruncated(b) ==
    Len(b) >= 4 /\ (DeclaresMore(b) \/ (Len(b) >= 7 /\ EndsInTAuthField(b)))

RAuthTruncated(b) == Len(b) < RAuthLength

\* C9: parsing a truncated frame fails with an error: TAuth.Parse when the
\* declared size exceeds the buffer or the buffer ends inside a field,
\* RAuth.Parse when the buffer ends inside the header or the Qid.
C9_TruncatedFails ==
    codecPc = "done" =>
        /\ (codecKind = "TAuth" /\ TAuthTruncated(buffer)) => parsed.status = "error"
        /\ (codecKind = "RAuth" /\ RAuthTruncated(buffer)) => parsed.status = "error"

-----------------------------------------------------------------------------
(* The claims about the reply to an authentication request.                *)

\* C10: every authentication request gets exactly one reply, an error reply
\* with the request's tag and the message "Not Enabled.", and the
\* filesystem, the connection's fids and the server are left as they were.
C10_AuthReply ==
    \A i \in 1..Len(authLog) :
        /\ Len(authLog[i].replies) = 1
        /\ authLog[i].replies[1].FCall.Ctype = rerror
        /\ authLog[i].replies[1].FCall.Tag = authLog[i].req.FCall.Tag
        /\ authLog[i].replies[1].Ename = "Not Enabled."
        /\ fsysState = authLog[i].before.fs
        /\ connFids = authLog[i].before.conn
        /\ srvState = authLog[i].before.s

\* Two requests of different tags were answered, the second for a fid that
\* was not bound and still is not.
C10_Witness ==
    /\ Len(authLog) = 2
    /\ authLog[1].req.FCall.Tag = 258
    /\ authLog[2].req.FCall.Tag = MaxUint16
    /\ authLog[2].replies[1].FCall.Tag = MaxUint16
    /\ authLog[2].req.Afid = U32(1)
    /\ ~connFids[U32(1)]

-----------------------------------------------------------------------------
(* The claims about the tree.                                              *)

\* The children of directory d.
TreeChildrenOf(d) == {children[d][nm] : nm \in TreeNames} \ {NoNode}

\* The nodes reached from the nodes of S by at most k steps down the mappings.
RECURSIVE ReachedFrom(_, _)
ReachedFrom(S, k) ==
    IF k = 0 THEN S
    ELSE ReachedFrom(S \cup UNION {TreeChildrenOf(d) : d \in S \cap TreeDirs}, k - 1)

\* The parent chain of n ends, within k steps, at the root, which has no parent.
RECURSIVE ChainEndsAtRoot(_, _)
ChainEndsAtRoot(n, k) ==
    IF n = Root THEN parentOf[Root] = NoNode
    ELSE IF k = 0 \/ parentOf[n] = NoNode THEN FALSE
    ELSE ChainEndsAtRoot(parentOf[n], k - 1)

TreeInvariant ==
    /\ \A n \in ReachedFrom({Root}, NumTreeNodes) : ChainEndsAtRoot(n, NumTreeNodes)
    /\ \A n \in TreeNodes :
          parentOf[n] # NoNode => n \in TreeChildrenOf(parentOf[n])
    /\ \A d \in TreeDirs : \A n \in TreeChildrenOf(d) : parentOf[n] = d
    /\ \A n \in TreeNodes :
          parentOf[n] = NoNode => \A d \in TreeDirs : n \notin TreeChildrenOf(d)
    /\ \A d \in TreeDirs : \A nm1, nm2 \in TreeNames :
          (nm1 # nm2 /\ children[d][nm1] # NoNode /\ children[d][nm2] # NoNode)
          => NodeName(children[d][nm1]) # NodeName(children[d][nm2])

\* No AddChild or DeleteChild is under way.
TreeQuiescent == \A d \in TreeDirs : dirLock[d] = NoProc

ConcurrentCreates(p, q) ==
    /\ p # q
    /\ treePc[p] = "idle" /\ treePc[q] = "idle"
    /\ treeCall[p].op = "Create" /\ treeCall[q].op = "Create"
    /\ treeCall[p].dir = treeCall[q].dir
    /\ treeCall[p].name = treeCall[q].name
    /\ treeCall[p].seen = {treeCall[q].id}
    /\ treeCall[q].seen = {treeCall[p].id}
    /\ (treeCall[p].absent \/ treeCall[q].absent)

\* C12: of two concurrent creates of one name in one directory exactly one
\* AddChild succeeds and the other fails with NameConflict, and afterwards
\* the directory has exactly one child of that name, whose parent it is.
C12_OneCreateWins ==
    \A p, q \in TreeProcs :
       ConcurrentCreates(p, q) =>
          LET d == treeCall[p].dir
              nm == treeCall[p].name
              rets == <<treeCall[p].ret, treeCall[q].ret>>
              winner == IF treeCall[p].ret = "nil" THEN treeCall[p].node
                        ELSE treeCall[q].node
          IN  /\ rets \in {<<"nil", "NameConflict">>, <<"NameConflict", "nil">>}
              /\ children[d][nm] = winner
              /\ {n \in TreeNodes : NodeName(n) = nm /\ parentOf[n] = d} = {winner}
              /\ {n \in TreeNodes : n \in TreeChildrenOf(d) /\ NodeName(n) = nm} = {winner}

\* Two creates of "b" in the root have overlapped and finished.
C12_Witness ==
    /\ ConcurrentCreates(1, 2)
    /\ treeCall[1].dir = Root /\ treeCall[1].absent /\ treeCall[2].absent
    /\ treeCall[1].err = "NameConflict" /\ treeCall[2].err = "ok"

\* One step of caller p, as C13 has it: an RMFile of a node without a parent
\* ends with an error, and the DeleteChild of an RMFile of child n of d takes
\* n's name out of d's mapping, takes d away as n's parent and changes no
\* other entry and no other parent.
RMFileStep(p) ==
    LET d == treeCall[p].dir
        n == treeCall[p].node
        nm == treeCall[p].name
    IN  /\ (treeCall'[p].id # treeCall[p].id /\ treeCall'[p].op = "RMFile"
            /\ treeCall'[p].dir = NoNode)
           => (treeCall'[p].ret \notin {"none", "nil", "panic"})
        /\ (treePc[p] = "delete" /\ treePc'[p] = "return"
            /\ treeCall[p].op = "RMFile" /\ children[d][nm] = n)
           => /\ children'[d][nm] = NoNode
              /\ parentOf'[n] # d
              /\ \A e \in TreeDirs : \A m \in TreeNames :
                    (e # d \/ m # nm) => children'[e][m] = children[e][m]
              /\ \A k \in TreeNodes : k # n => parentOf'[k] = parentOf[k]

\* C13: RMFile(fs, n) of a child n of p detaches n from p and changes nothing
\* else, and RMFile of the root, which has no parent, fails with an error
\* instead of crashing.
C13_RMFileDetachesOrFails == [][\A p \in TreeProcs : RMFileStep(p)]_vars

\* C19: RMFile of a node that has a parent returns nil whatever DeleteChild
\* returned, so two Removes of one node both succeed.
C19_RMFileAlwaysNil ==
    \A p \in TreeProcs :
       (treePc[p] = "idle" /\ treeCall[p].op = "RMFile" /\ treeCall[p].dir # NoNode)
       => treeCall[p].ret = "nil"

\* Two Removes of node 2 have returned nil, and DeleteChild failed in one.
C19_Witness ==
    /\ treePc[1] = "idle" /\ treePc[2] = "idle"
    /\ \A p \in TreeProcs :
          /\ treeCall[p].op = "RMFile" /\ treeCall[p].node = 2
          /\ treeCall[p].ret = "nil"
    /\ treeCall[1].err = "NotFound" /\ treeCall[2].err = "ok"

-----------------------------------------------------------------------------
(* The claim about Stat beside WriteStat.                                  *)

\* C14: a Stat() that runs beside a WriteStat(s) returns the whole old Stat
\* or the whole new one, never a mixture, and a Stat value obtained earlier
\* is not changed by a later WriteStat.
C14_StatSnapshot ==
    [][/\ (snapR.pc = "return" /\ snapR'.pc = "idle") => snapHeld' \in snapR.whole
       /\ snapW' # snapW => snapHeld' = snapHeld]_vars

-----------------------------------------------------------------------------
(* The claims about the FUSE bridge.                                       *)

\* Every field of s but those named is at its sentinel.
SentinelBut(s, fields) ==
    \A i \in 1..Len(StatFields) :
       StatFields[i] \notin fields => s[StatFields[i]] = SentinelStat[StatFields[i]]

\* The last handler sent one WStat and nothing else.
SentOneWStat == Len(wire) = 1 /\ wire[1].op = "WStat"

\* C15: the WStat of Dir.Rename has every field at its sentinel except the
\* name, which is the new name; the WStat of Dir.Setattr and FileNode.Setattr
\* has every field at its sentinel except mode and length, each set only
\* when the request marks it as set; when the request marks neither, no
\* WStat is sent.
C15_WStatFrame ==
    /\ (bridgeLog.op = "Rename" /\ bridgeLog.errno # "EINVAL")
       => /\ SentOneWStat
          /\ wire[1].stat.Name = bridgeLog.newName
          /\ SentinelBut(wire[1].stat, {"Name"})
    /\ bridgeLog.op \in {"Dir.Setattr", "FileNode.Setattr"}
       => IF ~bridgeLog.in.modeValid /\ ~bridgeLog.in.sizeValid
          THEN wire = <<>>
          ELSE /\ SentOneWStat
               /\ wire[1].stat.Mode = IF bridgeLog.in.modeValid
                                      THEN bridgeLog.in.Mode ELSE MaxUint32
               /\ wire[1].stat.Length = IF bridgeLog.in.sizeValid
                                        THEN bridgeLog.in.Size ELSE MaxUint64
               /\ SentinelBut(wire[1].stat, {"Mode", "Length"})

\* FileNode.Setattr has sent a WStat for a request that sets the mode only.
C15_Witness ==
    /\ bridgeLog.op = "FileNode.Setattr"
    /\ bridgeLog.in.modeValid /\ ~bridgeLog.in.sizeValid
    /\ SentOneWStat
    /\ wire[1].stat.Mode = U32(420)

\* The listing was missing or expired when the last handler began.
ListingStale ==
    bridgeLog.cacheBefore.isNil \/ bridgeLog.at > bridgeLog.ttlBefore

\* C20: Dir.Readdir and Dir.Lookup send a Readdir to the server only when
\* the Dir has no cached listing or the time is after the listing's expiry;
\* otherwise they answer from the cached listing and send nothing; a
\* successful fetch replaces the listing and sets the expiry to the time of
\* the fetch plus DefaultTTL; Lookup of a name that is not in the listing returns
\* ENOENT.
C20_ListingCache ==
    bridgeLog.op \in {"Lookup", "Readdir"}
    => /\ IF ListingStale
          THEN wire = <<Request("Readdir", "/", SentinelStat)>>
          ELSE /\ wire = <<>>
               /\ dirCache = bridgeLog.cacheBefore
               /\ dirTTL = bridgeLog.ttlBefore
               /\ bridgeLog.errno # "EPIPE"
       /\ (ListingStale /\ bridgeLog.errno # "EPIPE")
          => /\ dirCache = bridgeLog.reply
             /\ dirTTL = bridgeLog.end + DefaultTTL
       /\ (bridgeLog.op = "Readdir" /\ bridgeLog.errno = "OK")
          => bridgeLog.answer = dirCache.stats
       /\ (bridgeLog.op = "Lookup" /\ bridgeLog.errno # "EPIPE")
          => (bridgeLog.errno = "ENOENT" <=> bridgeLog.name \notin ListingNames(dirCache))

\* At the very second of expiry a Lookup of a name the server has by now is
\* answered ENOENT from the cached listing, with no request sent.
C20_Witness ==
    /\ bridgeLog.op = "Lookup"
    /\ ~bridgeLog.cacheBefore.isNil
    /\ bridgeLog.at = bridgeLog.ttlBefore
    /\ wire = <<>>
    /\ bridgeLog.errno = "ENOENT"
    /\ bridgeLog.name \in srvDir

-----------------------------------------------------------------------------
(* The claim about convertFlag.                                            *)

\* The access mode of open flags: their two lowest bits.
AccessMode(flags) == flags % 4

\* C16: the mode convertFlag returns is Read(0) for read-only flags,
\* Write(1) for write-only, ReadWrite(2) for read-write, with the truncate
\* flag added exactly when the flags hold the OS truncate flag, and nothing
\* else of the flags in it.
C16_ConvertFlag ==
    flagOut.done
    => LET access == IF AccessMode(flagIn) = O_RDONLY THEN 0
                     ELSE IF AccessMode(flagIn) = O_WRONLY THEN 1 ELSE 2
           truncate == (flagIn \div O_TRUNC(flagTarget)) % 2 = 1
       IN  flagOut.m = access + (IF truncate THEN Otrunc ELSE 0)

-----------------------------------------------------------------------------
(* The claim about BaseFile as a File.                                     *)

\* The step is a call of Open, Read, Write or Close.
FileOpStep ==
    \/ \E fid \in FileFids, omode \in {Oread, Owrite, Ordwr, Oexec} : OpenCall(fid, omode)
    \/ \E fid \in FileFids, offset \in FileOffsets, count \in FileCounts :
          ReadCall(fid, offset, count)
    \/ \E fid \in FileFids, offset \in FileOffsets, data \in FileData :
          WriteCall(fid, offset, data)
    \/ \E fid \in FileFids : CloseCall(fid)

\* C17: Open succeeds, Read returns a zero-byte slice and no error, Write
\* fails with an error and writes 0 bytes, Close succeeds, whatever the
\* handle, mode, offset, count and data and whatever the calls before, and
\* none of the four changes the node's Stat or its parent.
C17_BaseFileCalls ==
    [][FileOpStep =>
         /\ fStat' = fStat /\ fParent' = fParent
         /\ fileLog'.op = "Open" => ~fileLog'.err
         /\ fileLog'.op = "Read" => (fileLog'.data = <<>> /\ ~fileLog'.err)
         /\ fileLog'.op = "Write" => (fileLog'.n = 0 /\ fileLog'.err)
         /\ fileLog'.op = "Close" => ~fileLog'.err]_vars

\* A Write has failed on a node that has a parent and whose Stat was written.
C17_Witness ==
    /\ fileLog.op = "Write" /\ fileLog.err
    /\ fParent = Root
    /\ statLog.op = "WriteStat"

-----------------------------------------------------------------------------
(* The claim about FullPath.                                               *)

\* "/" + name2 + "/" + ... + "/" + namef, the names of the nodes 2..f.
RECURSIVE SlashJoined(_, _)
SlashJoined(chain, f) ==
    IF f = 2 THEN <<"/">> \o chain[2]
    ELSE SlashJoined(chain, f - 1) \o <<"/">> \o chain[f]

HasDoubleSlash(s) == \E i \in 1..(Len(s) - 1) : s[i] = "/" /\ s[i + 1] = "/"

\* A name that is not empty and has no slash in it.
PlainName(nm) == nm # <<>> /\ \A i \in 1..Len(nm) : nm[i] # "/"

\* What C18 says of the path of node f of a chain.
PathAsClaimed(chain, f, path) ==
    /\ f = 0 => path = <<>>
    /\ f = 1 => path = chain[1]
    /\ (f > 1 /\ chain[1] = <<"/">>)
       => (path = SlashJoined(chain, f) /\ ~HasDoubleSlash(path))

\* C18, as stated: FullPath returns "" for nil, the root's name for the
\* root, and for a node at depth k under a root named "/" the names joined
\* as "/" + name1 + "/" + ... + "/" + namek, with no "//" in it.
C18_FullPathAnyNames ==
    pathOut.done => PathAsClaimed(pathChain, pathNode, pathOut.path)

\* C18, amended: the same, for nodes under the root whose names are not
\* empty and hold no slash.
C18_FullPath ==
    (pathOut.done /\ \A i \in 2..pathNode : PlainName(pathChain[i]))
    => PathAsClaimed(pathChain, pathNode, pathOut.path)

\* The path of a node at depth 2 under the root "/".
C18_Witness ==
    /\ pathOut.done
    /\ pathChain = <<<<"/">>, <<"a">>, <<"b", "c">>>>
    /\ pathNode = 3
    /\ pathOut.path = <<"/", "a", "/", "b", "c">>

-----------------------------------------------------------------------------
(* C21, C22: the mutations through a Dir and its cached listing.           *)

MutationOps == {"Create", "Mkdir", "Unlink", "Rmdir", "Rename"}
ListingOps == {"Lookup", "Readdir"}
AnswerNames(answer) == {answer[i].Name : i \in 1..Len(answer)}

\* C21: after a successful Create, Mkdir, Unlink, Rmdir or Rename through
\* the Dir its expiry is reset, and a Lookup or Readdir of the Dir that
\* comes before its listing has been fetched again asks the server for the
\* listing; when the server answers, Lookup finds a name exactly when the
\* server has it and Readdir lists exactly the server's names.
C21_InvalidateOnMutation ==
    [][/\ (bridgeLog'.op \in MutationOps /\ bridgeLog'.errno = "OK")
            => dirTTL' = ZeroTime
       /\ (mutated /\ bridgeLog'.op \in ListingOps)
            => /\ wire' = <<Request("Readdir", "/", SentinelStat)>>
               /\ bridgeLog'.errno \in {"OK", "ENOENT", "EPIPE"}
               /\ (bridgeLog'.op = "Lookup" /\ bridgeLog'.errno # "EPIPE")
                    => (bridgeLog'.errno = "OK" <=> bridgeLog'.name \in srvDir)
               /\ (bridgeLog'.op = "Readdir" /\ bridgeLog'.errno # "EPIPE")
                    => AnswerNames(bridgeLog'.answer) = srvDir]_vars

\* A Lookup of a name that the stale listing still held reported ENOENT.
C21_Witness ==
    /\ bridgeLog.op = "Lookup"
    /\ bridgeLog.errno = "ENOENT"
    /\ ~bridgeLog.cacheBefore.isNil
    /\ bridgeLog.ttlBefore = ZeroTime
    /\ bridgeLog.name \in ListingNames(bridgeLog.cacheBefore)
    /\ wire = <<Request("Readdir", "/", SentinelStat)>>

\* C22: a mutation that the server rejects returns an error code and leaves
\* the Dir's listing, its expiry and the registry of Dirs as they were; a
\* Rename whose new parent is not this Dir returns EINVAL and sends nothing.
C22_FailedMutation ==
    [][bridgeLog'.op \in MutationOps
         => /\ bridgeLog'.rejected => bridgeLog'.errno \in {"EINVAL", "ENOENT"}
            /\ bridgeLog'.errno # "OK"
                 => UNCHANGED <<dirCache, dirTTL, dirCacheMap>>
            /\ (bridgeLog'.op = "Rename" /\ bridgeLog'.newParent # "self")
                 => (bridgeLog'.errno = "EINVAL" /\ wire' = <<>>)]_vars

\* The server rejected a Mkdir while the Dir held a listing that had not
\* expired.
C22_Witness ==
    /\ bridgeLog.op = "Mkdir"
    /\ bridgeLog.rejected
    /\ bridgeLog.errno = "EINVAL"
    /\ ~dirCache.isNil
    /\ dirTTL > now

-----------------------------------------------------------------------------
(* C23: Setattr through an open handle.                                    *)

SetattrOps == {"Dir.Setattr", "FileNode.Setattr", "File.Setattr"}

\* What a Setattr handler may do to the server's Stat of its node: the
\* mode is as before unless the request marks it as set, and so is the
\* length.
OnlyAsked(in, before, after) ==
    /\ ~in.modeValid => after.Mode = before.Mode
    /\ ~in.sizeValid => after.Length = before.Length

\* C23: whichever of Dir.Setattr, FileNode.Setattr and File.Setattr handles
\* a request, the server's mode of the node changes only if the request
\* marks the mode as set and its length only if the request marks the size
\* as set.
C23_SetattrOnlyAsked ==
    [][bridgeLog'.op \in SetattrOps
         => OnlyAsked(bridgeLog'.in, srvStat[bridgeLog'.name],
                      srvStat'[bridgeLog'.name])]_vars

-----------------------------------------------------------------------------
(* C24: ReadWriteCloser.Close.                                             *)

\* The halves a message names as having failed: the words "Read" and
\* "Write" before the word "failed".
RECURSIVE NamedHalves(_)
NamedHalves(text) ==
    IF text = <<>> \/ Head(text) = "failed" THEN {}
    ELSE ({Head(text)} \cap {"Read", "Write"}) \cup NamedHalves(Tail(text))

FailedHalves(err1, err2) ==
    (IF err1 # "" THEN {"Read"} ELSE {}) \cup (IF err2 # "" THEN {"Write"} ELSE {})

\* C24: every Close has closed the read half and the write half, also when
\* the read half answered with an error; it returned nil exactly when both
\* answered nil, and otherwise an error whose message names exactly the
\* halves that failed.
C24_CloseBoth ==
    /\ Len(wLog) = Len(rLog)
    /\ closeOut.done = (Len(rLog) > 0)
    /\ closeOut.done
         => LET err1 == rLog[Len(rLog)]
                err2 == wLog[Len(rLog)]
            IN  /\ closeOut.isNil <=> (err1 = "" /\ err2 = "")
                /\ ~closeOut.isNil
                     => NamedHalves(closeOut.text) = FailedHalves(err1, err2)

\* A Close whose read half failed has closed the write half, which
\* succeeded, and the error names the read half only.
C24_Witness ==
    /\ closeOut.done
    /\ Len(wLog) = Len(rLog)
    /\ rLog[Len(rLog)] = "EIO"
    /\ wLog[Len(rLog)] = ""
    /\ closeOut.text = <<"Read", "failed", "to", "close:", "EIO">>

=============================================================================
